---- MODULE Spec2Model ----
(***************************************************************************)
(* Verification model of the SkyWeave network-planning backend.            *)
(*                                                                         *)
(* Part 1: rasm_optimizer.FrequencyOptimizer (the frequency/equipment      *)
(*         MILP) and optimize_network.                                     *)
(* Part 2: rasm_optimizer.EquipmentSwapOptimizer (single-route swap        *)
(*         evaluator).                                                     *)
(*                                                                         *)
(* Arithmetic.  The program computes in binary floating point; the model   *)
(* computes the same quantities exactly.  Money is held in units of 1/200  *)
(* dollar (every coefficient of the program is a multiple of it when       *)
(* distance, demand and fare are whole numbers), unit revenue (RASM) as a  *)
(* fraction num/den of cents.                                              *)
(***************************************************************************)
EXTENDS Integers, Sequences, FiniteSets, TLC

VARIABLES
    \* ---- FrequencyOptimizer object (rasm_optimizer.py 197-210)
    routes,              \* self.routes: route key -> Route
    fleet,               \* self.fleet: list of Aircraft
    crew_bases,          \* self.crew_bases: base -> CrewBase
    fleet_by_type_base,  \* self.fleet_by_type_base: (type, base) -> count
    \* ---- one call of optimize()
    objective,           \* the objective argument of the call, "" before it
    solver_status,       \* LpStatus[prob.status] after prob.solve, "" before it
    solution,            \* the values CBC left in the freq variables (NoValue
                         \* when the solve produced none or before the call)
    result,              \* the OptimizationResult returned, NoValue before
    \* ---- EquipmentSwapOptimizer object (rasm_optimizer.py 526-529)
    route,               \* self.route
    current_eq,          \* self.current_eq
    current_freq,        \* self.current_freq
    \* ---- its calls
    options,             \* the list evaluate_options returned last, << >> before
                         \* (a returned list always holds the Current entry)
    best,                \* the option get_best_option returned last, NoValue before
    analysis,            \* what quick_rasm_analysis returned last, NoValue before
    float_above,         \* the alternatives whose rasm equals the current one
                         \* mathematically and exceeds it as computed in floats
    \* ---- two calls of calculate_stage_length_casm (rasm_optimizer.py 92-129)
    distance_a,          \* the distance_nm argument of the first call
    distance_b,          \* the distance_nm argument of the second call
    casm_a,              \* what the first call returned, NoValue before
    casm_b,              \* what the second call returned, NoValue before
    \* ---- one call of infer_route_segment_profile (data_parser.py 433-491)
    prior_origin,        \* the origin argument
    prior_destination,   \* the destination argument
    prior_profile,       \* the mix returned, NoValue before
    \* ---- DemandDecomposer object (demand_decomposition.py 89-114)
    network_df,          \* the DataFrame the caller passed to the constructor
    df,                  \* self.df, the decomposer's own copy
    \* ---- its calls
    first_result,        \* pair -> what the first decompose_route(pair) returned
    last_result,         \* pair -> what the latest decompose_route(pair) returned
    repeated,            \* the pairs decompose_route was called for more than once
    all_routes,          \* what decompose_all_routes returned last, NoValue before
    heatmap,             \* what get_dow_segment_heatmap returned last, NoValue before
    signal_args,         \* the arguments get_all_signals is called with
    base_mix,            \* the base mix handed to adjust_segment_mix
    signals,             \* the signals map get_all_signals returned, in dict order
    adjusted_mix,        \* map order -> what adjust_segment_mix returned for it
    \* ---- TrendsSignalEngine object (segment_inference.py 346-391) and its callers
    trends_client,       \* whether the engine was given a trends client
    trends_cache,        \* self._cache: cache_key -> entry, NoValue where absent
    clock,               \* datetime.now().timestamp(), in seconds
    call,                \* task -> where its get_trends_signal call stands
    live_stores,         \* every store made after a successful reply
    \* ---- Decision OS endpoints (main.py 1980-2297)
    decision_store,      \* decision_id -> decision, the in-memory store
    decision_log,        \* the global decision log
    response,            \* the HTTP status of the latest call, 0 before any
    approved_before      \* the decisions whose status has been approved at some time

optVars ==
    <<routes, fleet, crew_bases, fleet_by_type_base, objective, solver_status, solution, result>>

swapVars == <<route, current_eq, current_freq, options, best, analysis, float_above>>

casmVars == <<distance_a, distance_b, casm_a, casm_b>>

priorVars == <<prior_origin, prior_destination, prior_profile>>

decompVars == <<network_df, df, first_result, last_result, repeated, all_routes, heatmap>>

signalVars == <<signal_args, base_mix, signals, adjusted_mix>>

trendsVars == <<trends_client, trends_cache, clock, call, live_stores>>

decisionVars == <<decision_store, decision_log, response, approved_before>>

vars == <<optVars, swapVars, casmVars, priorVars, decompVars, signalVars, trendsVars, decisionVars>>

\* What an action of one component leaves alone.
notOpt == <<swapVars, casmVars, priorVars, decompVars, signalVars, trendsVars, decisionVars>>
notSwap == <<optVars, casmVars, priorVars, decompVars, signalVars, trendsVars, decisionVars>>
notCasm == <<optVars, swapVars, priorVars, decompVars, signalVars, trendsVars, decisionVars>>
notPrior == <<optVars, swapVars, casmVars, decompVars, signalVars, trendsVars, decisionVars>>
notDecomp == <<optVars, swapVars, casmVars, priorVars, signalVars, trendsVars, decisionVars>>
notSignals == <<optVars, swapVars, casmVars, priorVars, decompVars, trendsVars, decisionVars>>
notTrends == <<optVars, swapVars, casmVars, priorVars, decompVars, signalVars, decisionVars>>
notDecision == <<optVars, swapVars, casmVars, priorVars, decompVars, signalVars, trendsVars>>

NoValue == [none |-> TRUE]

Min(a, b) == IF a <= b THEN a ELSE b
Max(a, b) == IF a >= b THEN a ELSE b

\* Sum of f[x] over a finite set S of arguments.
RECURSIVE SumOver(_, _)
SumOver(S, f) ==
    IF S = {} THEN 0
    ELSE LET x == CHOOSE y \in S : TRUE IN f[x] + SumOver(S \ {x}, f)

(***************************************************************************)
(* Bounds of the model.                                                    *)
(***************************************************************************)
MaxRoutes == 2      \* routes in one network
MaxFleet == 3       \* aircraft in one fleet list
MaxCurrentFreq == 4 \* current frequency of a swap evaluation

(***************************************************************************)
(* AIRCRAFT_SPECS and the stage-length cost model.                         *)
(***************************************************************************)
AcTypes == {"A319", "A320neo", "A321neo"}

Seats(ac) ==
    CASE ac = "A319" -> 145
      [] ac = "A320neo" -> 182
      [] ac = "A321neo" -> 228

\* Mutant: the stage-length adjustment is left out.
StageLengthCasmFlat(distance_nm) ==
    IF distance_nm <= 0 THEN [num |-> 15, den |-> 1] ELSE [num |-> 21, den |-> 2]

\* calculate_stage_length_casm(distance_nm) with the default base_casm 10.5,
\* in cents per ASM as the fraction num/den: 10.5 + 1000/d = (21 d + 2000)/(2 d);
\* 15.0 for a distance <= 0.
StageLengthCasm(distance_nm) ==
    IF distance_nm <= 0 THEN [num |-> 15, den |-> 1]
    ELSE [num |-> 21 * distance_nm + 2000, den |-> 2 * distance_nm]

\* casm * asm / 100 dollars, in units of 1/200 dollar: 2 * casm * asm.  The
\* denominator of casm (1 or 2 d) divides 2 * asm = 2 * seats * d * flights.
CostOf(distance_nm, asm) ==
    LET casm == StageLengthCasm(distance_nm)
    IN casm.num * ((2 * asm) \div casm.den)

(***************************************************************************)
(* Inputs: the routes, fleets and crew bases a caller builds the optimizer *)
(* from.  DTW-MCO at 950 nm carries the documented end-to-end scenario.    *)
(***************************************************************************)
\* origin, destination, distance_nm, daily_demand, avg_fare, min_frequency,
\* max_frequency
MkRoute(o, d, dist, dem, fare, minf, maxf) ==
    [origin |-> o, destination |-> d, distance_nm |-> dist, daily_demand |-> dem,
     avg_fare |-> fare, min_frequency |-> minf, max_frequency |-> maxf]

RouteInputs ==
    { MkRoute("DTW", "MCO", 950, 300, 120, 0, 4),    \* the documented scenario
      MkRoute("DTW", "MCO", 950, 1140, 300, 0, 6),   \* high demand, high fare
      MkRoute("DTW", "MCO", 950, 300, 120, 1, 2),    \* a contractual minimum
      MkRoute("DTW", "MCO", 950, 100, 300, 1, 2),    \* a minimum above the demand cap
      MkRoute("DTW", "CLE", 400, 0, 120, 0, 2),      \* no demand
      MkRoute("DTW", "CLE", 400, 300, 120, 0, 4),
      MkRoute("DTW", "CLE", 400, 300, 120, 2, 2),
      MkRoute("MCO", "SEA", 2200, 300, 300, 0, 2),
      MkRoute("MCO", "SEA", 2200, 0, 300, 0, 2) }

\* f"{r.origin}-{r.destination}"
RouteKey(r) == <<r.origin, r.destination>>

AircraftKinds ==
    << [aircraft_type |-> "A320neo", home_base |-> "DTW", available |-> TRUE],
       [aircraft_type |-> "A321neo", home_base |-> "DTW", available |-> TRUE],
       [aircraft_type |-> "A321neo", home_base |-> "DTW", available |-> FALSE] >>

\* The fleet lists of at most MaxFleet aircraft, kinds in catalogue order
\* (the program only counts the list, its order is never read).
RECURSIVE Repeat(_, _)
Repeat(x, n) == IF n = 0 THEN << >> ELSE <<x>> \o Repeat(x, n - 1)

FleetInputs ==
    { Repeat(AircraftKinds[1], n[1]) \o Repeat(AircraftKinds[2], n[2]) \o Repeat(AircraftKinds[3], n[3]) :
        n \in { m \in [1..3 -> 0..MaxFleet] : m[1] + m[2] + m[3] <= MaxFleet } }

MkCrewBase(b, p) == [base |-> b, pilots_available |-> p, fas_available |-> 2 * p]

\* base -> pilots of the crew list: none, DTW alone (1 or 20 pilots), DTW and MCO
CrewInputs ==
    { << >>, [b \in {"DTW"} |-> 1], [b \in {"DTW"} |-> 20],
      [b \in {"DTW", "MCO"} |-> IF b = "DTW" THEN 20 ELSE 1] }

Objectives == {"profit", "revenue", "rasm"}

(***************************************************************************)
(* FrequencyOptimizer.__init__ and _aggregate_fleet.                       *)
(***************************************************************************)
\* counts[(type, base)] of the available aircraft; a pair with no available
\* aircraft has no entry.
AggregateFleet(fl) ==
    LET avail == {i \in DOMAIN fl : fl[i].available}
        keys == {<<fl[i].aircraft_type, fl[i].home_base>> : i \in avail}
    IN [k \in keys |->
            Cardinality({i \in avail : <<fl[i].aircraft_type, fl[i].home_base>> = k})]

RouteSets ==
    { S \in SUBSET RouteInputs :
        /\ Cardinality(S) <= MaxRoutes
        /\ \A p, q \in S : RouteKey(p) = RouteKey(q) => p = q }

\* The state after FrequencyOptimizer(routes, fleet, crew_bases).
OptInit ==
    /\ \E S \in RouteSets :
          routes = [k \in {RouteKey(p) : p \in S} |-> CHOOSE q \in S : RouteKey(q) = k]
    /\ fleet \in FleetInputs
    /\ \E c \in CrewInputs : crew_bases = [b \in DOMAIN c |-> MkCrewBase(b, c[b])]
    /\ fleet_by_type_base = AggregateFleet(fleet)
    /\ objective = ""
    /\ solver_status = ""
    /\ solution = NoValue
    /\ result = NoValue

(***************************************************************************)
(* FrequencyOptimizer.optimize: the integer program.                       *)
(* An assignment x gives x[rk][ac], the value of freq[route_key, ac_type]. *)
(***************************************************************************)
RowTotal(f) == f["A319"] + f["A320neo"] + f["A321neo"]

RowSeats(f) ==
    Seats("A319") * f["A319"] + Seats("A320neo") * f["A320neo"]
        + Seats("A321neo") * f["A321neo"]

\* LpVariable(lowBound=0, upBound=route.max_frequency, cat=LpInteger)
VarDomain(rk) == 0 .. routes[rk].max_frequency

\* Per-flight coefficients, in units of 1/200 dollar:
\*   expected_lf = min(0.90, daily_demand / (seats * 2))
\*   revenue     = seats * expected_lf * avg_fare
RevenueCoef(rk, ac) ==
    Min(180 * Seats(ac), 100 * routes[rk].daily_demand) * routes[rk].avg_fare

AsmCoef(rk, ac) == Seats(ac) * routes[rk].distance_nm

CostCoef(rk, ac) == CostOf(routes[rk].distance_nm, AsmCoef(rk, ac))

\* Mutant: every objective maximises revenue.
ObjectiveCoefRevenue(obj, rk, ac) == RevenueCoef(rk, ac)

\* 'profit' and the default branch ('rasm') maximise revenue - cost,
\* 'revenue' maximises revenue.
ObjectiveCoef(obj, rk, ac) ==
    IF obj = "revenue" THEN RevenueCoef(rk, ac)
    ELSE RevenueCoef(rk, ac) - CostCoef(rk, ac)

ObjectiveValue(obj, x) ==
    SumOver((DOMAIN routes) \X AcTypes,
            [k \in (DOMAIN routes) \X AcTypes |-> ObjectiveCoef(obj, k[1], k[2]) * x[k[1]][k[2]]])

\* Mutant: six flights per aircraft per day.
FleetConstraintSix(x) ==
    \A k \in DOMAIN fleet_by_type_base :
        LET relevant == {rk \in DOMAIN routes : routes[rk].origin = k[2]}
        IN relevant # {} =>
             SumOver(relevant, [rk \in relevant |-> x[rk][k[1]]])
                 <= fleet_by_type_base[k] * 6

\* 1. Fleet availability: one constraint per (type, base) entry of
\*    fleet_by_type_base that has a route originating at the base.
FleetConstraint(x) ==
    \A k \in DOMAIN fleet_by_type_base :
        LET relevant == {rk \in DOMAIN routes : routes[rk].origin = k[2]}
        IN relevant # {} =>
             SumOver(relevant, [rk \in relevant |-> x[rk][k[1]]])
                 <= fleet_by_type_base[k] * 5

\* Mutant: one pilot per flight.
CrewConstraintOnePilot(x) ==
    \A b \in DOMAIN crew_bases :
        LET relevant == {rk \in DOMAIN routes : routes[rk].origin = b}
        IN relevant # {} =>
             SumOver(relevant, [rk \in relevant |-> RowTotal(x[rk])])
                 <= crew_bases[b].pilots_available * 4

\* 2. Crew availability: (pilots_available * 4) // 2 flights per base.
CrewConstraint(x) ==
    \A b \in DOMAIN crew_bases :
        LET relevant == {rk \in DOMAIN routes : routes[rk].origin = b}
        IN relevant # {} =>
             SumOver(relevant, [rk \in relevant |-> RowTotal(x[rk])])
                 <= (crew_bases[b].pilots_available * 4) \div 2

\* Mutant: the minimum is enforced one flight short.
MinFreqConstraintShort(rk, f) ==
    routes[rk].min_frequency > 0 => RowTotal(f) >= routes[rk].min_frequency - 1

\* 3. Minimum frequency, only for a route with min_frequency > 0.
MinFreqConstraint(rk, f) ==
    routes[rk].min_frequency > 0 => RowTotal(f) >= routes[rk].min_frequency

\* Mutant: the cap is 2.0 times the demand.
DemandCapConstraintDouble(rk, f) == RowSeats(f) <= 2 * routes[rk].daily_demand

\* 4. Demand cap: daily seats <= daily_demand * 1.2.
DemandCapConstraint(rk, f) == 5 * RowSeats(f) <= 6 * routes[rk].daily_demand

\* The rows of one route that satisfy its bounds and its own constraints.
LocalRows(rk) ==
    { f \in [AcTypes -> VarDomain(rk)] :
        MinFreqConstraint(rk, f) /\ DemandCapConstraint(rk, f) }

RECURSIVE Assignments(_)
Assignments(RK) ==
    IF RK = {} THEN { << >> }
    ELSE LET rk == CHOOSE k \in RK : TRUE
             rows == LocalRows(rk)
             rest == Assignments(RK \ {rk})
         IN { [k \in RK |-> IF k = rk THEN f ELSE a[k]] : f \in rows, a \in rest }

FeasibleSet ==
    { x \in Assignments(DOMAIN routes) : FleetConstraint(x) /\ CrewConstraint(x) }

\* prob.solve(PULP_CBC_CMD(timeLimit=...)): the status CBC reports and the
\* values it leaves in the variables.  An infeasible program is reported
\* 'Infeasible'; a feasible one is solved to an optimum ('Optimal', any of the
\* optimal assignments) unless the time limit stops the search first
\* ('Not Solved').
SolveOutcomes(obj) ==
    LET feas == FeasibleSet
        vals == {ObjectiveValue(obj, x) : x \in feas}
        optimum == CHOOSE m \in vals : \A n \in vals : n <= m
    IN IF feas = {} THEN { [status |-> "Infeasible", values |-> NoValue] }
       ELSE { [status |-> "Optimal", values |-> x] :
                  x \in {y \in feas : ObjectiveValue(obj, y) = optimum} }
            \cup { [status |-> "Not Solved", values |-> NoValue] }

\* Mutant: every failure is reported as 'Infeasible'.
ErrorResultInfeasible(status) ==
    [status |-> "Infeasible",
     objective_value |-> [num |-> 0, den |-> 1],
     total_revenue |-> 0, total_asm |-> 0, total_cost |-> 0,
     decisions |-> << >>,
     recommendations |-> << [type |-> "error"] >>]

\* The non-optimal return (lines 384-398).
ErrorResult(status) ==
    [status |-> status,
     objective_value |-> [num |-> 0, den |-> 1],
     total_revenue |-> 0, total_asm |-> 0, total_cost |-> 0,
     decisions |-> << >>,
     recommendations |-> << [type |-> "error"] >>]

\* _generate_recommendations: the types of the blocks it appends.
GenerateRecommendations(frequencies) ==
    LET served == DOMAIN frequencies
        short_haul == {rk \in served : routes[rk].distance_nm < 500}
        long_haul == {rk \in served : routes[rk].distance_nm >= 1000}
    IN << [type |-> "summary"] >>
         \o (IF served # {} THEN << [type |-> "top_routes"] >> ELSE << >>)
         \o (IF short_haul # {} /\ long_haul # {}
               THEN << [type |-> "stage_length"] >> ELSE << >>)

\* The optimal return (lines 400-435): only pairs with flights > 0 are
\* entered in decisions, totals are recomputed from the coefficient tables.
ExtractResult(x) ==
    LET keys == (DOMAIN routes) \X AcTypes
        flown == {k \in keys : x[k[1]][k[2]] > 0}
        frequencies ==
            [rk \in {k[1] : k \in flown} |->
                [total |-> RowTotal(x[rk]),
                 by_equipment |-> [ac \in {a \in AcTypes : x[rk][a] > 0} |-> x[rk][ac]]]]
        total_revenue == SumOver(flown, [k \in flown |-> RevenueCoef(k[1], k[2]) * x[k[1]][k[2]]])
        total_cost == SumOver(flown, [k \in flown |-> CostCoef(k[1], k[2]) * x[k[1]][k[2]]])
        total_asm == SumOver(flown, [k \in flown |-> AsmCoef(k[1], k[2]) * x[k[1]][k[2]]])
    IN [status |-> "Optimal",
        objective_value |->
            IF total_asm > 0 THEN [num |-> total_revenue, den |-> 2 * total_asm]
            ELSE [num |-> 0, den |-> 1],
        total_revenue |-> total_revenue, total_asm |-> total_asm, total_cost |-> total_cost,
        decisions |-> [frequencies |-> frequencies, equipment |-> << >>],
        recommendations |-> GenerateRecommendations(frequencies)]

\* optimize(objective): optimize_network builds the optimizer and calls it once.
Optimize(obj) ==
    /\ result = NoValue
    /\ \E o \in SolveOutcomes(obj) :
          /\ solver_status' = o.status
          /\ solution' = o.values
          /\ result' = IF o.status # "Optimal" THEN ErrorResult(o.status)
                       ELSE ExtractResult(o.values)
    /\ objective' = obj
    /\ UNCHANGED <<routes, fleet, crew_bases, fleet_by_type_base>>
    /\ UNCHANGED notOpt

OptNext == \E obj \in Objectives : Optimize(obj)

\* No optimizer has been built.
OptIdle ==
    /\ routes = << >>
    /\ fleet = << >>
    /\ crew_bases = << >>
    /\ fleet_by_type_base = << >>
    /\ objective = ""
    /\ solver_status = ""
    /\ solution = NoValue
    /\ result = NoValue

(***************************************************************************)
(* Exact arithmetic for the rounded fields of the swap evaluator.          *)
(***************************************************************************)
\* round(n / d) for d > 0, ties to the even neighbour (Python's round).
RoundHalfEven(n, d) ==
    LET q == n \div d
        r == n % d
    IN IF 2 * r < d THEN q
       ELSE IF 2 * r > d THEN q + 1
       ELSE IF q % 2 = 0 THEN q ELSE q + 1

\* The sign (-1, 0, 1) of a/b - c/d for a, c >= 0 and b, d > 0, by the
\* continued-fraction expansion (no products, so no overflow).
RECURSIVE FracCmp(_, _, _, _)
FracCmp(a, b, c, d) ==
    LET qa == a \div b
        qc == c \div d
        ra == a % b
        rc == c % d
    IN IF qa # qc THEN (IF qa < qc THEN -1 ELSE 1)
       ELSE IF ra = 0 /\ rc = 0 THEN 0
       ELSE IF ra = 0 THEN -1
       ELSE IF rc = 0 THEN 1
       ELSE FracCmp(d, rc, b, ra)

\* 100 * (num / den) as floor + g / den with 0 <= g < den.
Hundredths(fr) ==
    LET i == fr.num \div fr.den
        r == fr.num % fr.den
    IN [floor |-> 100 * i + (100 * r) \div fr.den, g |-> (100 * r) % fr.den, den |-> fr.den]

\* The difference x - y of two non-negative fractions, in hundredths, as
\* k + phi with k an integer and -1 < phi < 1; sgn is the sign of phi and
\* half tells on which side of +-1/2 it lies (-1 below, 0 on, 1 above |1/2|).
FracDelta(x, y) ==
    LET hx == Hundredths(x)
        hy == Hundredths(y)
        sgn == FracCmp(hx.g, hx.den, hy.g, hy.den)
        half == IF sgn >= 0
                  THEN FracCmp(hx.g, hx.den, 2 * hy.g + hy.den, 2 * hy.den)
                  ELSE FracCmp(hy.g, hy.den, 2 * hx.g + hx.den, 2 * hx.den)
    IN [k |-> hx.floor - hy.floor, sgn |-> sgn, half |-> half]

\* delta > c / 100 on floats: a delta that is exactly c / 100 in the rationals
\* carries the sign of its floating-point residue in delta.above.
DeltaGt(delta, c) ==
    \/ delta.k > c
    \/ delta.k = c /\ delta.sgn > 0
    \/ delta.k = c /\ delta.sgn = 0 /\ delta.above

\* round(delta, 2), in hundredths
RoundDelta(delta) ==
    IF delta.sgn >= 0
      THEN IF delta.half < 0 THEN delta.k
           ELSE IF delta.half > 0 THEN delta.k + 1
           ELSE IF delta.k % 2 = 0 THEN delta.k ELSE delta.k + 1
      ELSE IF delta.half < 0 THEN delta.k
           ELSE IF delta.half > 0 THEN delta.k - 1
           ELSE IF delta.k % 2 = 0 THEN delta.k ELSE delta.k - 1

(***************************************************************************)
(* EquipmentSwapOptimizer.                                                 *)
(***************************************************************************)
\* AIRCRAFT_SPECS.items(), in insertion order
AcTypeOrder == << "A319", "A320neo", "A321neo" >>

SwapRouteInputs ==
    { MkRoute("DTW", "MCO", dist, dem, fare, 0, maxf) :
        dist \in {400, 2200}, dem \in {0, 100, 170, 600}, fare \in {120, 300}, maxf \in {2, 4, 10} }

EquipmentInputs == AcTypes \cup {"B737"}

SwapIdle ==
    /\ route = NoValue
    /\ current_eq = ""
    /\ current_freq = 0
    /\ options = << >>
    /\ best = NoValue
    /\ analysis = NoValue
    /\ float_above = {}

\* AIRCRAFT_SPECS.get(self.current_eq, AIRCRAFT_SPECS['A320neo'])['seats']
CurrentSeats == IF current_eq \in AcTypes THEN Seats(current_eq) ELSE Seats("A320neo")

\* The economics of flying `seats` seats `freq` times a day on the route:
\* money in units of 1/200 dollar, rasm as a fraction of cents.
Economics(seats, freq) ==
    LET asm == seats * route.distance_nm * freq
        capacity == seats * freq
        pax200 == Min(200 * route.daily_demand, 190 * capacity)   \* min(demand, capacity * 0.95)
        revenue == pax200 * route.avg_fare
        cost == CostOf(route.distance_nm, asm)
    IN [asm |-> asm, capacity |-> capacity, pax200 |-> pax200, revenue |-> revenue,
        cost |-> cost, profit |-> revenue - cost,
        rasm |-> IF asm > 0 THEN [num |-> revenue, den |-> 2 * asm] ELSE [num |-> 0, den |-> 1]]

\* _get_recommendation(delta_profit, delta_rasm): delta_profit in units of
\* 1/200 dollar, delta_rasm as FracDelta gives it.
GetRecommendation(delta_profit, delta_rasm) ==
    IF delta_profit > 5000 * 200 /\ DeltaGt(delta_rasm, 50) THEN "strongly_recommended"
    ELSE IF delta_profit > 2000 * 200 /\ DeltaGt(delta_rasm, 0) THEN "recommended"
    ELSE IF delta_profit > 0 THEN "consider"
    ELSE IF delta_profit < -2000 * 200 THEN "avoid"
    ELSE "neutral"

\* The rounded fields every option dict carries.
ReportedFields(eq, seats, freq, e) ==
    [equipment |-> eq, frequency |-> freq, seats |-> seats,
     daily_capacity |-> e.capacity,
     expected_pax |-> RoundHalfEven(e.pax200, 200),
     load_factor |-> IF e.capacity > 0 THEN RoundHalfEven(5 * e.pax200, e.capacity) ELSE 0,
     revenue |-> RoundHalfEven(e.revenue, 200),
     cost |-> RoundHalfEven(e.cost, 200),
     profit |-> RoundHalfEven(e.profit, 200),
     rasm_cents |-> RoundDelta(FracDelta(e.rasm, [num |-> 0, den |-> 1])),
     asm |-> e.asm]

Extend(rec, more) ==
    [f \in DOMAIN rec \cup DOMAIN more |-> IF f \in DOMAIN more THEN more[f] ELSE rec[f]]

\* Mutant: the baseline's deltas are taken against zero instead of itself.
CurrentOptionAgainstZero ==
    LET f == ReportedFields(current_eq, CurrentSeats, current_freq,
                            Economics(CurrentSeats, current_freq))
    IN Extend(f, [option |-> "Current", delta_profit |-> f.profit,
                  delta_rasm |-> f.rasm_cents, recommendation |-> "baseline"])

\* The baseline entry (lines 538-563).
CurrentOption ==
    Extend(ReportedFields(current_eq, CurrentSeats, current_freq,
                          Economics(CurrentSeats, current_freq)),
           [option |-> "Current", delta_profit |-> 0, delta_rasm |-> 0,
            recommendation |-> "baseline"])

OptionType(seats, freq_delta) ==
    LET gauge == IF seats > CurrentSeats THEN 1 ELSE IF seats < CurrentSeats THEN -1 ELSE 0
    IN CASE gauge = 1 /\ freq_delta = -1 -> "Upgauge (-1)"
         [] gauge = 1 /\ freq_delta = 0 -> "Upgauge"
         [] gauge = 1 /\ freq_delta = 1 -> "Upgauge (+1)"
         [] gauge = -1 /\ freq_delta = -1 -> "Downgauge (-1)"
         [] gauge = -1 /\ freq_delta = 0 -> "Downgauge"
         [] gauge = -1 /\ freq_delta = 1 -> "Downgauge (+1)"
         [] gauge = 0 /\ freq_delta = -1 -> "Refrequency (-1)"
         [] gauge = 0 /\ freq_delta = 0 -> "Refrequency"
         [] gauge = 0 /\ freq_delta = 1 -> "Refrequency (+1)"

\* Whether the loop keeps (eq_type, freq_delta) (lines 568-572).
Kept(eq_type, freq_delta) ==
    LET new_freq == current_freq + freq_delta
    IN /\ ~(new_freq < 1 \/ new_freq > route.max_frequency)
       /\ ~(eq_type = current_eq /\ freq_delta = 0)

\* One alternative (lines 574-609).
AlternativeOption(eq_type, freq_delta) ==
    LET new_freq == current_freq + freq_delta
        cur == Economics(CurrentSeats, current_freq)
        new == Economics(Seats(eq_type), new_freq)
        delta_profit == new.profit - cur.profit
        delta_rasm == Extend(FracDelta(new.rasm, cur.rasm),
                             [above |-> << eq_type, freq_delta >> \in float_above])
    IN Extend(ReportedFields(eq_type, Seats(eq_type), new_freq, new),
              [option |-> OptionType(Seats(eq_type), freq_delta),
               delta_profit |-> RoundHalfEven(delta_profit, 200),
               delta_rasm |-> RoundDelta(delta_rasm),
               recommendation |-> GetRecommendation(delta_profit, delta_rasm)])

\* The (eq_type, freq_delta) pairs in loop order: types in AIRCRAFT_SPECS
\* order, freq_delta in [-1, 0, 1].
LoopOrder ==
    [i \in 1 .. 9 |-> << AcTypeOrder[((i - 1) \div 3) + 1], ((i - 1) % 3) - 1 >>]

\* options before the sort: Current, then the alternatives kept.
RECURSIVE Enumerated(_)
Enumerated(i) ==
    IF i = 0 THEN << CurrentOption >>
    ELSE LET p == LoopOrder[i]
         IN IF Kept(p[1], p[2]) THEN Append(Enumerated(i - 1), AlternativeOption(p[1], p[2]))
            ELSE Enumerated(i - 1)

\* list.sort(key=delta_profit, reverse=True): stable, equal keys keep their order.
RECURSIVE InsertDesc(_, _)
InsertDesc(sorted, o) ==
    IF sorted = << >> THEN << o >>
    ELSE IF sorted[Len(sorted)].delta_profit >= o.delta_profit THEN Append(sorted, o)
    ELSE Append(InsertDesc(SubSeq(sorted, 1, Len(sorted) - 1), o), sorted[Len(sorted)])

RECURSIVE SortDesc(_)
SortDesc(seq) ==
    IF seq = << >> THEN << >>
    ELSE InsertDesc(SortDesc(SubSeq(seq, 1, Len(seq) - 1)), seq[Len(seq)])

EvaluateOptionsValue == SortDesc(Enumerated(9))

\* Mutant: a max that returns the last of several largest.
LastMax(seq) ==
    LET i == CHOOSE j \in DOMAIN seq :
                /\ \A k \in DOMAIN seq : seq[k].delta_profit <= seq[j].delta_profit
                /\ \A k \in j + 1 .. Len(seq) : seq[k].delta_profit < seq[j].delta_profit
    IN seq[i]

\* max(options, key=delta_profit): the first of the largest.
FirstMax(seq) ==
    LET i == CHOOSE j \in DOMAIN seq :
                /\ \A k \in DOMAIN seq : seq[k].delta_profit <= seq[j].delta_profit
                /\ \A k \in 1 .. j - 1 : seq[k].delta_profit < seq[j].delta_profit
    IN seq[i]

\* The alternatives whose rasm equals the current rasm in the rationals while
\* the floats new_rasm and current_rasm come from different operands: their
\* difference is a rounding residue whose sign the recommendation reads when
\* delta_profit passes the 2000 threshold (lines 617-620).
FloatTies ==
    { p \in AcTypes \X {-1, 0, 1} :
        /\ Kept(p[1], p[2])
        /\ LET cur == Economics(CurrentSeats, current_freq)
               new == Economics(Seats(p[1]), current_freq + p[2])
               delta == FracDelta(new.rasm, cur.rasm)
           IN /\ new.rasm.num # 0
              /\ new.asm # cur.asm
              /\ delta.k \in {0, 50}
              /\ delta.sgn = 0
              /\ new.profit - cur.profit > 2000 * 200 }

\* The state after EquipmentSwapOptimizer(route, current_equipment, current_frequency).
SwapInit ==
    /\ route \in SwapRouteInputs
    /\ current_eq \in EquipmentInputs
    /\ current_freq \in 0 .. MaxCurrentFreq
    /\ options = << >>
    /\ best = NoValue
    /\ analysis = NoValue
    /\ float_above \in SUBSET FloatTies

\* evaluate_options()
EvaluateOptions ==
    /\ options' = EvaluateOptionsValue
    /\ UNCHANGED <<route, current_eq, current_freq, best, analysis, float_above>>
    /\ UNCHANGED notSwap

\* get_best_option(): evaluates the options itself and returns the best.
GetBestOption ==
    /\ best' = FirstMax(EvaluateOptionsValue)
    /\ UNCHANGED <<route, current_eq, current_freq, options, analysis, float_above>>
    /\ UNCHANGED notSwap

\* options[0] if options else None
QuickCurrent(ranked) == IF ranked = << >> THEN NoValue ELSE ranked[1]

\* quick_rasm_analysis(origin, destination, distance_nm, daily_demand,
\* avg_fare, current_equipment, current_frequency): the Route it builds has
\* the default max_frequency of 10.
QuickRasmAnalysis ==
    /\ route.max_frequency = 10
    /\ analysis' = [route |-> << route.origin, route.destination >>,
                    distance_nm |-> route.distance_nm,
                    current |-> QuickCurrent(EvaluateOptionsValue),
                    options |-> EvaluateOptionsValue,
                    recommended |-> FirstMax(EvaluateOptionsValue)]
    /\ UNCHANGED <<route, current_eq, current_freq, options, best, float_above>>
    /\ UNCHANGED notSwap

SwapNext == EvaluateOptions \/ GetBestOption \/ QuickRasmAnalysis

(***************************************************************************)
(* calculate_stage_length_casm in double arithmetic.                       *)
(*                                                                         *)
(* A distance is mant * 2^exp nautical miles with exp 0 (a whole number of *)
(* miles) or exp 49.  The returned double is held as num/den + ulps/2^49:  *)
(*  - exp 0: the exact value (21 d + 2000)/(2 d); the two roundings of the *)
(*    program move it by less than 2^-47, far below the gap of at least    *)
(*    1000/(d (d + 1)) between two whole distances up to 20000;            *)
(*  - exp 49: 10.5 is a multiple of 2^-49, the spacing of doubles in       *)
(*    [8, 16), and the sum 10.5 + 1000/(mant * 2^49) is rounded to the     *)
(*    nearest multiple, ties to even: round(1000/mant) spacings above 10.5.*)
(***************************************************************************)
MkDistance(mant, exp) == [mant |-> mant, exp |-> exp]

DistanceInputs ==
    { MkDistance(m, 0) : m \in (0 .. 12) \cup {500, 950, 1000, 1500, 2000, 20000} }
      \cup { MkDistance(m, 49) : m \in {700, 800, 1999, 2000, 2001} }

\* d1 < d2
DistanceLess(d1, d2) ==
    IF d1.exp = d2.exp THEN d1.mant < d2.mant
    ELSE IF d1.exp < d2.exp THEN d2.mant > 0
    ELSE d1.mant = 0 /\ d2.mant > 0

\* The default base_casm, 10.5.
BaseCasm == [num |-> 21, den |-> 2, ulps |-> 0]

\* Mutant: the stage adjustment is dropped.
StageLengthCasmDoubleFlat(distance) ==
    IF distance.mant <= 0 THEN [num |-> 15, den |-> 1, ulps |-> 0] ELSE BaseCasm

\* calculate_stage_length_casm(distance) as the double it returns.
StageLengthCasmDouble(distance) ==
    IF distance.mant <= 0 THEN [num |-> 15, den |-> 1, ulps |-> 0]
    ELSE IF distance.exp = 0
      THEN [num |-> StageLengthCasm(distance.mant).num,
            den |-> StageLengthCasm(distance.mant).den, ulps |-> 0]
      ELSE [num |-> 21, den |-> 2, ulps |-> RoundHalfEven(1000, distance.mant)]

\* x > y for two returned doubles (ulps only ever accompany 21/2, and stay
\* below every exact value other than 21/2 itself).
CasmGreater(x, y) ==
    \/ FracCmp(x.num, x.den, y.num, y.den) = 1
    \/ FracCmp(x.num, x.den, y.num, y.den) = 0 /\ x.ulps > y.ulps

CasmInit ==
    /\ distance_a \in DistanceInputs
    /\ distance_b \in DistanceInputs
    /\ casm_a = NoValue
    /\ casm_b = NoValue

CasmIdle ==
    /\ distance_a = NoValue
    /\ distance_b = NoValue
    /\ casm_a = NoValue
    /\ casm_b = NoValue

\* casm_a = calculate_stage_length_casm(distance_a)
CasmCallA ==
    /\ casm_a' = StageLengthCasmDouble(distance_a)
    /\ UNCHANGED <<distance_a, distance_b, casm_b>>
    /\ UNCHANGED notCasm

\* casm_b = calculate_stage_length_casm(distance_b)
CasmCallB ==
    /\ casm_b' = StageLengthCasmDouble(distance_b)
    /\ UNCHANGED <<distance_a, distance_b, casm_a>>
    /\ UNCHANGED notCasm

CasmNext == CasmCallA \/ CasmCallB

(***************************************************************************)
(* data_parser: the geography prior.  Shares are held in units of 0.0001   *)
(* (what round(x, 4) returns); the weights before normalisation are held   *)
(* in hundredths.                                                          *)
(***************************************************************************)
\* AIRPORT_CATEGORIES
CruisePorts ==
    { "MIA", "FLL", "TPA", "SJU", "CZM", "NAS", "GCM", "SXM", "POS",
      "BGI", "AUA", "CUR", "STT", "STX", "SAV", "CHS", "JAX", "MSY",
      "HOU", "SEA", "YVR", "LAX", "SAN", "NYC" }

BeachResort ==
    { "CUN", "PUJ", "MBJ", "SJO", "LIR", "PVR", "SJD", "GCM", "AUA",
      "SXM", "PLS", "EYW", "RSW", "PBI", "HNL", "OGG", "KOA", "LIH",
      "SJU", "STT", "STX", "NAS", "FPO" }

ThemePark ==
    { "MCO", "SAN", "LAX", "ANA" }

Casino ==
    { "LAS", "RNO", "ATL", "BIL" }

BusinessHub ==
    { "JFK", "LGA", "EWR", "ORD", "LAX", "SFO", "DFW", "IAH", "ATL",
      "BOS", "DCA", "IAD", "SEA", "DEN", "PHX", "CLT", "MIA", "MSP",
      "DTW", "PHL" }

Secondary ==
    { "ABQ", "ALB", "AUS", "BDL", "BHM", "BNA", "BUF", "BWI", "CLE",
      "CMH", "CVG", "DAY", "DSM", "ELP", "GRR", "GSO", "IND", "JAX",
      "MCI", "MEM", "MKE", "OKC", "OMA", "ONT", "PIT", "PVD", "RDU",
      "RIC", "ROC", "SAT", "SDF", "SJC", "SMF", "SNA", "STL", "SYR",
      "TUL", "TUS" }

\* The keys of a segment mix, in dict order.
SegmentOrder == << "vfr", "leisure", "cruise", "business", "other" >>

Segments == { SegmentOrder[i] : i \in DOMAIN SegmentOrder }

\* categorize_airport(iata_code), for a code already in upper case.
CategorizeAirport(iata_code) ==
    LET categories ==
            (IF iata_code \in CruisePorts THEN {"cruise_ports"} ELSE {})
              \cup (IF iata_code \in BeachResort THEN {"beach_resort"} ELSE {})
              \cup (IF iata_code \in ThemePark THEN {"theme_park"} ELSE {})
              \cup (IF iata_code \in Casino THEN {"casino"} ELSE {})
              \cup (IF iata_code \in BusinessHub THEN {"business_hub"} ELSE {})
              \cup (IF iata_code \in Secondary THEN {"secondary"} ELSE {})
    IN IF categories = {} THEN {"other"} ELSE categories

\* sum(mix.values())
MixTotal(mix) == SumOver(Segments, mix)

\* round(v / total, 4) in units of 0.0001 for total > 0, by long division so
\* that no intermediate product leaves the 32-bit range.
RoundShare(v, total) ==
    LET r1 == (v % total) * 100
        r2 == (r1 % total) * 100
        floor == (v \div total) * 10000 + (r1 \div total) * 100 + (r2 \div total)
        rem == r2 % total
    IN IF 2 * rem < total THEN floor
       ELSE IF 2 * rem > total THEN floor + 1
       ELSE IF floor % 2 = 0 THEN floor ELSE floor + 1

\* {k: round(v/total, 4) for k, v in mix.items()}
Normalize(mix) == [k \in Segments |-> RoundShare(mix[k], MixTotal(mix))]

MkMix(vfr, leisure, cruise, business, other) ==
    [k \in Segments |->
        CASE k = "vfr" -> vfr [] k = "leisure" -> leisure [] k = "cruise" -> cruise
          [] k = "business" -> business [] k = "other" -> other]

\* Mutant: the first matching check decides instead of the last.
RawProfileFirstMatch(origin, destination) ==
    IF "cruise_ports" \in CategorizeAirport(destination) THEN MkMix(25, 15, 20, 25, 15)
    ELSE IF "beach_resort" \in CategorizeAirport(destination) THEN MkMix(30, 50, 0, 10, 0)
    ELSE IF "theme_park" \in CategorizeAirport(destination) THEN MkMix(40, 45, 0, 10, 5)
    ELSE IF "casino" \in CategorizeAirport(destination) THEN MkMix(20, 55, 0, 15, 10)
    ELSE IF "business_hub" \in CategorizeAirport(origin)
              /\ "business_hub" \in CategorizeAirport(destination)
      THEN MkMix(30, 25, 0, 35, 10)
    ELSE IF "secondary" \in CategorizeAirport(origin)
              \/ "secondary" \in CategorizeAirport(destination)
      THEN MkMix(45, 30, 0, 15, 10)
    ELSE MkMix(25, 25, 0, 25, 25)

\* The weights infer_route_segment_profile holds before it normalises, in
\* hundredths: each matching check overwrites what the earlier ones left.
RawProfile(origin, destination) ==
    LET origin_cats == CategorizeAirport(origin)
        dest_cats == CategorizeAirport(destination)
        p0 == MkMix(25, 25, 0, 25, 25)
        p1 == IF "cruise_ports" \in dest_cats
                THEN [p0 EXCEPT !["cruise"] = 20, !["leisure"] = @ - 10, !["other"] = @ - 10]
                ELSE p0
        p2 == IF "beach_resort" \in dest_cats
                THEN MkMix(30, 50, IF "cruise_ports" \in dest_cats THEN 10 ELSE 0, 10, 0)
                ELSE p1
        p3 == IF "theme_park" \in dest_cats THEN MkMix(40, 45, 0, 10, 5) ELSE p2
        p4 == IF "casino" \in dest_cats THEN MkMix(20, 55, 0, 15, 10) ELSE p3
        p5 == IF "business_hub" \in origin_cats /\ "business_hub" \in dest_cats
                THEN MkMix(30, 25, 0, 35, 10) ELSE p4
        p6 == IF "secondary" \in origin_cats \/ "secondary" \in dest_cats
                THEN MkMix(45, 30, 0, 15, 10) ELSE p5
    IN p6

\* Mutant: the weights are returned without normalisation (as ten-thousandths).
InferRouteSegmentProfileRaw(origin, destination) ==
    [k \in Segments |-> 100 * RawProfile(origin, destination)[k]]

\* infer_route_segment_profile(origin, destination)
InferRouteSegmentProfile(origin, destination) ==
    Normalize(RawProfile(origin, destination))

\* Airports of every category and combination the checks distinguish, and
\* one ("XXX") of none.
AirportInputs ==
    { "JFK", "CUN", "MIA", "SJU", "MCO", "LAX", "LAS", "ATL", "ABQ", "JAX", "DTW", "XXX" }

PriorInit ==
    /\ prior_origin \in AirportInputs
    /\ prior_destination \in AirportInputs
    /\ prior_profile = NoValue

PriorIdle ==
    /\ prior_origin = ""
    /\ prior_destination = ""
    /\ prior_profile = NoValue

\* prior_profile = infer_route_segment_profile(prior_origin, prior_destination)
InferProfile ==
    /\ prior_profile' = InferRouteSegmentProfile(prior_origin, prior_destination)
    /\ UNCHANGED <<prior_origin, prior_destination>>
    /\ UNCHANGED notPrior

PriorNext == InferProfile

(***************************************************************************)
(* demand_decomposition.DemandDecomposer.                                  *)
(*                                                                         *)
(* A DataFrame is the set of optional canonical columns it has and its     *)
(* rows (the origin and destination columns are always there).  Pax and    *)
(* fares are whole numbers, spill rates and load factors are in hundredths.*)
(* Inside a refinement stage a share is held in units of 0.0001/400, so    *)
(* that two successive multipliers in twentieths stay exact.               *)
(***************************************************************************)
OptionalColumns ==
    { "dow", "constrained_local_pax", "unconstrained_local_pax",
      "constrained_local_fare", "unconstrained_local_fare", "load_factor", "spill_rate" }

MaxRows == 2

MkRow(origin, destination, dow, pax, unc_pax, const_fare, unc_fare, load_factor, spill_rate) ==
    [origin |-> origin, destination |-> destination, dow |-> dow,
     constrained_local_pax |-> pax, unconstrained_local_pax |-> unc_pax,
     constrained_local_fare |-> const_fare, unconstrained_local_fare |-> unc_fare,
     load_factor |-> load_factor, spill_rate |-> spill_rate]

\* Schedule rows: JFK-SJU (a cruise port and beach resort) on a Saturday
\* (fare premium, high spill), on a Tuesday and on a Monday (fare discount,
\* very low spill), the reverse direction, and a secondary market on a
\* Wednesday and on a Saturday.
RowInputs ==
    { MkRow("JFK", "SJU", 6, 120, 150, 130, 100, 95, 15),
      MkRow("JFK", "SJU", 2, 100, 100, 100, 100, 80, 6),
      MkRow("JFK", "SJU", 1, 90, 90, 90, 100, 70, 1),
      MkRow("SJU", "JFK", 7, 90, 100, 100, 100, 85, 0),
      MkRow("ABQ", "DTW", 3, 60, 60, 100, 100, 75, 5),
      MkRow("ABQ", "DTW", 6, 50, 70, 120, 100, 90, 12) }

\* All columns, or all but one.
ColumnInputs == {OptionalColumns} \cup { OptionalColumns \ {c} : c \in OptionalColumns }

FrameInputs ==
    { [columns |-> cols, rows |-> rows] :
        cols \in ColumnInputs,
        rows \in { R \in SUBSET RowInputs : Cardinality(R) \in 1 .. MaxRows } }

\* The (origin, destination) pairs asked for, in sorted order.
PairOrder ==
    << <<"ABQ", "DTW">>, <<"JFK", "SJU">>, <<"SJU", "JFK">> >>

RoutePairs == { PairOrder[i] : i \in DOMAIN PairOrder }

\* Mutant: the filter also takes the rows of the reverse direction.
RouteRowsEitherWay(frame, origin, destination) ==
    { r \in frame.rows :
        \/ r.origin = origin /\ r.destination = destination
        \/ r.origin = destination /\ r.destination = origin }

\* self.df[(self.df[origin_col] == origin) & (self.df[dest_col] == destination)]
RouteRows(frame, origin, destination) ==
    { r \in frame.rows : r.origin = origin /\ r.destination = destination }

\* route_df[col].sum()
ColumnSum(rows, col) == SumOver(rows, [r \in rows |-> r[col]])

\* route_df.groupby(dow_col)[const_local_pax].sum(), as dow -> pax
DowPax(rows) ==
    [d \in { r.dow : r \in rows } |->
        ColumnSum({ r \in rows : r.dow = d }, "constrained_local_pax")]

\* The pax of a set of days
PaxOn(rows, days) == ColumnSum({ r \in rows : r.dow \in days }, "constrained_local_pax")

\* x * (twentieths / 20)
Times(x, twentieths) == (x * twentieths) \div 20

\* A ceiling given in hundredths, in stage units.
Ceiling(hundredths) == hundredths * 100 * 400

ToStage(mix) == [k \in Segments |-> 400 * mix[k]]

\* An exception leaving a call.
Raised(exception) == [raised |-> exception]

IsRaised(value) == DOMAIN value = {"raised"}

\* Lines 186-190: a weekend-heavy week boosts VFR.
WeekendStep(adjusted, weekend) ==
    IF weekend
      THEN [adjusted EXCEPT !["vfr"] = Min(Ceiling(100), Times(@, 24)),
                            !["business"] = Times(@, 16)]
      ELSE adjusted

\* Mutant: a Saturday spike gives cruise a share even where it had none.
SaturdayStepAdditive(adjusted, saturday) ==
    IF saturday
      THEN [adjusted EXCEPT !["cruise"] = Min(Ceiling(40), @ + Ceiling(5))]
      ELSE adjusted

\* Lines 192-195: a Saturday spike boosts an existing cruise share.
SaturdayStep(adjusted, saturday) ==
    IF saturday /\ adjusted["cruise"] > 0
      THEN [adjusted EXCEPT !["cruise"] = Min(Ceiling(40), Times(@, 30))]
      ELSE adjusted

\* Lines 197-201: a weekday-heavy week boosts business.
WeekdayStep(adjusted, weekday) ==
    IF weekday
      THEN [adjusted EXCEPT !["business"] = Min(Ceiling(50), Times(@, 26)),
                            !["leisure"] = Times(@, 18)]
      ELSE adjusted

\* max(dow_dist.values()), as pax
LargestDay(rows) ==
    CHOOSE p \in { PaxOn(rows, {r.dow}) : r \in rows } :
        \A r \in rows : PaxOn(rows, {r.dow}) <= p

\* The three ratio tests of lines 187-199 on the pax per day.  With no pax at
\* all the distribution is NaN and every comparison is false.
WeekendHeavy(rows) ==
    PaxOn(rows, 1 .. 7) > 0 /\ 2 * PaxOn(rows, {5, 6, 7}) > PaxOn(rows, 1 .. 7)

SaturdaySpike(rows) ==
    PaxOn(rows, 1 .. 7) > 0 /\ 5 * PaxOn(rows, {6}) > LargestDay(rows)

WeekdayHeavy(rows) ==
    PaxOn(rows, 1 .. 7) > 0 /\ 5 * PaxOn(rows, {1, 2, 3, 4}) > 3 * PaxOn(rows, 1 .. 7)

\* _refine_by_dow_pattern(route_df, base_profile).  The Pearson fits of lines
\* 171-181 are computed and never read.
RefineByDowPattern(frame, rows, base_profile) ==
    IF "dow" \notin frame.columns THEN base_profile
    ELSE IF "constrained_local_pax" \notin frame.columns THEN Raised("KeyError")
    ELSE Normalize(WeekdayStep(SaturdayStep(WeekendStep(ToStage(base_profile),
                       WeekendHeavy(rows)), SaturdaySpike(rows)), WeekdayHeavy(rows)))

\* Lines 219-225, on the sum of the spill rates (in hundredths) of n rows.
SpillStep(adjusted, spill, n) ==
    IF spill > 10 * n
      THEN [adjusted EXCEPT !["vfr"] = Min(Ceiling(100), Times(@, 22)),
                            !["cruise"] = Min(Ceiling(50), Times(@, 23))]
      ELSE IF spill < 2 * n
        THEN [adjusted EXCEPT !["leisure"] = Min(Ceiling(100), Times(@, 22))]
        ELSE adjusted

\* _refine_by_spill_pattern(route_df, profile)
RefineBySpillPattern(frame, rows, profile) ==
    IF "spill_rate" \notin frame.columns THEN profile
    ELSE Normalize(SpillStep(ToStage(profile), ColumnSum(rows, "spill_rate"),
                             Cardinality(rows)))

\* Lines 242-253 on the fare sums of the rows: the premium is
\* (avg_const_fare - avg_unc_fare) / max(avg_unc_fare, 1), and divisor is
\* max(sum of the unconstrained fares, number of rows).
FareStep(adjusted, difference, divisor) ==
    IF 20 * difference > divisor
      THEN [adjusted EXCEPT !["business"] = Min(Ceiling(50), Times(@, 23)),
                            !["vfr"] = Min(Ceiling(60), Times(@, 22)),
                            !["leisure"] = Times(@, 17)]
      ELSE IF 50 * difference < -divisor
        THEN [adjusted EXCEPT !["leisure"] = Min(Ceiling(70), Times(@, 24)),
                              !["business"] = Times(@, 18)]
        ELSE adjusted

\* _refine_by_fare_sensitivity(route_df, profile)
RefineByFareSensitivity(frame, rows, profile) ==
    IF "constrained_local_fare" \notin frame.columns
         \/ "unconstrained_local_fare" \notin frame.columns
      THEN profile
    ELSE Normalize(FareStep(ToStage(profile),
                            ColumnSum(rows, "constrained_local_fare")
                              - ColumnSum(rows, "unconstrained_local_fare"),
                            Max(ColumnSum(rows, "unconstrained_local_fare"), Cardinality(rows))))

\* The locals of decompose_route after its three refinement calls (an
\* exception of one stage is what every later local holds).
TraceFromSpill(frame, rows, base_profile, dow_refined, spill_refined) ==
    [base_profile |-> base_profile, dow_refined |-> dow_refined,
     spill_refined |-> spill_refined,
     final_profile |-> IF IsRaised(spill_refined) THEN spill_refined
                       ELSE RefineByFareSensitivity(frame, rows, spill_refined)]

TraceFromDow(frame, rows, base_profile, dow_refined) ==
    TraceFromSpill(frame, rows, base_profile, dow_refined,
                   IF IsRaised(dow_refined) THEN dow_refined
                   ELSE RefineBySpillPattern(frame, rows, dow_refined))

StageTrace(frame, origin, destination) ==
    TraceFromDow(frame, RouteRows(frame, origin, destination),
                 InferRouteSegmentProfile(origin, destination),
                 RefineByDowPattern(frame, RouteRows(frame, origin, destination),
                                    InferRouteSegmentProfile(origin, destination)))

\* route_df[col].mean() if col in route_df else None, as <<sum, count>>
MeanOrNone(frame, rows, col) ==
    IF col \in frame.columns THEN << ColumnSum(rows, col), Cardinality(rows) >> ELSE NoValue

\* Lines 141-157 of decompose_route for a route that has rows.  The
\* per-segment estimates of segment_metrics are fixed functions of the rows
\* and of segment_mix and are left out; what _calculate_segment_metrics and
\* line 153 contribute here are their column look-ups.
ResultOf(frame, origin, destination, rows, final_profile) ==
    IF IsRaised(final_profile) THEN final_profile
    ELSE IF "constrained_local_fare" \in frame.columns
              /\ "constrained_local_pax" \notin frame.columns
      THEN Raised("KeyError")
    ELSE IF "dow" \notin frame.columns \/ "constrained_local_pax" \notin frame.columns
      THEN Raised("KeyError")
    ELSE [route |-> << origin, destination >>,
          origin_categories |-> CategorizeAirport(origin),
          destination_categories |-> CategorizeAirport(destination),
          segment_mix |-> final_profile,
          total_records |-> Cardinality(rows),
          dow_distribution |-> DowPax(rows),
          avg_load_factor |-> MeanOrNone(frame, rows, "load_factor"),
          avg_spill_rate |-> MeanOrNone(frame, rows, "spill_rate"),
          avg_fare |-> MeanOrNone(frame, rows, "constrained_local_fare")]

\* decompose_route(origin, destination) on a decomposer holding frame.
DecomposeRouteValue(frame, origin, destination) ==
    IF RouteRows(frame, origin, destination) = {} THEN [error |-> << origin, destination >>]
    ELSE ResultOf(frame, origin, destination, RouteRows(frame, origin, destination),
                  StageTrace(frame, origin, destination).final_profile)

\* DemandDecomposer(network_df, column_mappings): self.df = network_df.copy()
DecompInit ==
    /\ network_df \in FrameInputs
    /\ df = network_df
    /\ first_result = [p \in RoutePairs |-> NoValue]
    /\ last_result = [p \in RoutePairs |-> NoValue]
    /\ repeated = {}
    /\ all_routes = NoValue
    /\ heatmap = NoValue

DecompIdle ==
    /\ network_df = NoValue
    /\ df = NoValue
    /\ first_result = << >>
    /\ last_result = << >>
    /\ repeated = {}
    /\ all_routes = NoValue
    /\ heatmap = NoValue

\* Mutant: a decomposer that answers a repeated question from what an
\* earlier decompose_all_routes left behind.
DecomposeRouteResultStale(pair) ==
    IF all_routes # NoValue /\ first_result[pair] # NoValue
      THEN [error |-> pair]
      ELSE DecomposeRouteValue(df, pair[1], pair[2])

\* What self.decompose_route(pair) returns in the current state.
DecomposeRouteResult(pair) == DecomposeRouteValue(df, pair[1], pair[2])

\* A caller's decompose_route(origin, destination).
DecomposeRoute(pair) ==
    /\ last_result' = [last_result EXCEPT ![pair] = DecomposeRouteResult(pair)]
    /\ first_result' = IF first_result[pair] = NoValue
                         THEN [first_result EXCEPT ![pair] = DecomposeRouteResult(pair)]
                         ELSE first_result
    /\ repeated' = IF first_result[pair] = NoValue THEN repeated ELSE repeated \cup {pair}
    /\ UNCHANGED <<network_df, df, all_routes, heatmap>>
    /\ UNCHANGED notDecomp

\* The pairs of self.df.groupby([origin_col, dest_col]), in sorted order.
\* (HasRows: the pair is one of the groups.)
HasRows(pair) == RouteRows(df, pair[1], pair[2]) # {}

FramePairs == SelectSeq(PairOrder, HasRows)

\* decompose_all_routes(): one decompose_route per pair of the frame; an
\* exception of any of them leaves the call.
DecomposeAllRoutes ==
    /\ all_routes' =
          IF \E i \in DOMAIN FramePairs : IsRaised(DecomposeRouteResult(FramePairs[i]))
            THEN Raised("KeyError")
            ELSE [data |-> [i \in DOMAIN FramePairs |-> DecomposeRouteResult(FramePairs[i])]]
    /\ UNCHANGED <<network_df, df, first_result, last_result, repeated, heatmap>>
    /\ UNCHANGED notDecomp

\* get_dow_segment_heatmap(origin, destination).  The cells,
\* round(dow_total * share * dow_weight * 7 / sum(profile), 1), are a fixed
\* function of the profile and of the pax per day, which stand for them.
GetDowSegmentHeatmap(pair) ==
    /\ heatmap' =
          IF RouteRows(df, pair[1], pair[2]) = {} THEN [empty |-> TRUE]
          ELSE IF IsRaised(DecomposeRouteResult(pair)) THEN DecomposeRouteResult(pair)
          ELSE [profile |-> DecomposeRouteResult(pair).segment_mix,
                dow_pax |-> DowPax(RouteRows(df, pair[1], pair[2]))]
    /\ UNCHANGED <<network_df, df, first_result, last_result, repeated, all_routes>>
    /\ UNCHANGED notDecomp

DecompNext ==
    \/ \E pair \in RoutePairs : DecomposeRoute(pair)
    \/ DecomposeAllRoutes
    \/ \E pair \in RoutePairs : GetDowSegmentHeatmap(pair)

(***************************************************************************)
(* External signals: segment_inference.py.  Signal strengths are in        *)
(* hundredths; the weights adjust_segment_mix works on are in millionths.  *)
(***************************************************************************)
\* CRUISE_PORTS: airport -> primary_departure_day
CruisePortDay ==
    [MIA |-> 6, FLL |-> 6, TPA |-> 6, SJU |-> 7, CZM |-> 0, NAS |-> 0, GCM |-> 0]

\* SCHOOL_CALENDARS, in dict order
SchoolCalendars ==
    << [name |-> "winter_break", start_month |-> 12, start_day |-> 20, end_month |-> 1, end_day |-> 5],
       [name |-> "spring_break_early", start_month |-> 3, start_day |-> 10, end_month |-> 3, end_day |-> 20],
       [name |-> "spring_break_late", start_month |-> 3, start_day |-> 20, end_month |-> 4, end_day |-> 5],
       [name |-> "summer_start", start_month |-> 6, start_day |-> 1, end_month |-> 6, end_day |-> 15],
       [name |-> "summer_end", start_month |-> 8, start_day |-> 15, end_month |-> 8, end_day |-> 31],
       [name |-> "thanksgiving", start_month |-> 11, start_day |-> 20, end_month |-> 11, end_day |-> 30] >>

\* CULTURAL_HOLIDAYS, in dict order
CulturalHolidays ==
    << [name |-> "three_kings_day", month |-> 1, day |-> 6, regions |-> {"caribbean", "latin_america"}, segment |-> "vfr"],
       [name |-> "carnival", month |-> 2, day |-> 15, regions |-> {"caribbean", "latin_america"}, segment |-> "vfr"],
       [name |-> "dia_de_los_muertos", month |-> 11, day |-> 2, regions |-> {"latin_america"}, segment |-> "vfr"],
       [name |-> "christmas_eve", month |-> 12, day |-> 24, regions |-> {"all"}, segment |-> "vfr"],
       [name |-> "new_years_eve", month |-> 12, day |-> 31, regions |-> {"all"}, segment |-> "leisure"],
       [name |-> "mlk_day", month |-> 1, day |-> 15, regions |-> {"us"}, segment |-> "leisure"],
       [name |-> "memorial_day", month |-> 5, day |-> 27, regions |-> {"us"}, segment |-> "leisure"],
       [name |-> "july_4th", month |-> 7, day |-> 4, regions |-> {"us"}, segment |-> "leisure"],
       [name |-> "labor_day", month |-> 9, day |-> 2, regions |-> {"us"}, segment |-> "leisure"] >>

\* AIRPORT_REGIONS
CaribbeanAirports ==
    {"SJU", "STT", "STX", "NAS", "CZM", "SXM", "AUA", "CUR", "POS", "BGI", "GCM", "PLS", "MBJ", "KIN"}

LatinAmericaAirports ==
    {"CUN", "PUJ", "SJO", "LIR", "PVR", "SJD", "GDL", "MEX", "BOG", "MDE", "LIM", "SCL"}

\* get_airport_region(iata_code)
GetAirportRegion(iata_code) ==
    IF iata_code \in CaribbeanAirports THEN "caribbean"
    ELSE IF iata_code \in LatinAmericaAirports THEN "latin_america"
    ELSE "us"

\* CruiseSignalEngine.get_cruise_signal(destination, day_of_week)
GetCruiseSignal(destination, day_of_week) ==
    IF destination \notin DOMAIN CruisePortDay
      THEN [signal_strength |-> 0, is_cruise_port |-> FALSE]
      ELSE [signal_strength |->
                CASE (CruisePortDay[destination] - day_of_week) % 7 = 0 -> 30
                  [] (CruisePortDay[destination] - day_of_week) % 7 = 1 -> 100
                  [] (CruisePortDay[destination] - day_of_week) % 7 = 2 -> 60
                  [] (CruisePortDay[destination] - day_of_week) % 7 = 6 -> 20
                  [] OTHER -> 5,
            is_cruise_port |-> TRUE,
            primary_departure_day |-> CruisePortDay[destination],
            days_before_departure |-> (CruisePortDay[destination] - day_of_week) % 7]

\* the in_period test of _check_school_calendar
InPeriod(period, month, day) ==
    IF period.start_month <= period.end_month
      THEN /\ (month > period.start_month
                 \/ (month = period.start_month /\ day >= period.start_day))
           /\ (month < period.end_month
                 \/ (month = period.end_month /\ day <= period.end_day))
      ELSE \/ (month > period.start_month
                 \/ (month = period.start_month /\ day >= period.start_day))
           \/ (month < period.end_month
                 \/ (month = period.end_month /\ day <= period.end_day))

\* SeasonalityEngine._check_school_calendar(date_obj): the first period the
\* date falls in, None (NoValue) without one.
CheckSchoolCalendar(date_obj) ==
    LET Holds(period) == InPeriod(period, date_obj[1], date_obj[2])
        found == SelectSeq(SchoolCalendars, Holds)
    IN IF found = << >> THEN NoValue
       ELSE [type |-> "school_calendar", name |-> Head(found).name,
             strength |-> 70, segment |-> "vfr"]

\* abs((month * 30 + day) - (h_month * 30 + h_day))
DaysDiff(date_obj, holiday) ==
    IF date_obj[1] * 30 + date_obj[2] >= holiday.month * 30 + holiday.day
      THEN (date_obj[1] * 30 + date_obj[2]) - (holiday.month * 30 + holiday.day)
      ELSE (holiday.month * 30 + holiday.day) - (date_obj[1] * 30 + date_obj[2])

\* SeasonalityEngine._check_cultural_holidays(date_obj, dest_region,
\* origin_region): the first holiday of the route's regions within 3 days.
CheckCulturalHolidays(date_obj, dest_region, origin_region) ==
    LET Near(holiday) ==
            /\ ("all" \in holiday.regions \/ dest_region \in holiday.regions
                  \/ origin_region \in holiday.regions)
            /\ DaysDiff(date_obj, holiday) <= 3
        found == SelectSeq(CulturalHolidays, Near)
    IN IF found = << >> THEN NoValue
       ELSE [type |-> "cultural_holiday", name |-> Head(found).name,
             strength |-> IF DaysDiff(date_obj, Head(found)) <= 1 THEN 80 ELSE 50,
             segment |-> Head(found).segment]

\* the drivers list of get_seasonality_signal
SeasonalityDrivers(date_obj, origin, destination) ==
    (IF CheckSchoolCalendar(date_obj) = NoValue THEN << >>
       ELSE << CheckSchoolCalendar(date_obj) >>)
    \o (IF CheckCulturalHolidays(date_obj, GetAirportRegion(destination),
                                 GetAirportRegion(origin)) = NoValue THEN << >>
          ELSE << CheckCulturalHolidays(date_obj, GetAirportRegion(destination),
                                        GetAirportRegion(origin)) >>)

\* max(signals, key=lambda x: x['strength']): the first of the strongest
StrongestDriver(drivers) ==
    IF Len(drivers) = 2 /\ drivers[2].strength > drivers[1].strength
      THEN drivers[2] ELSE drivers[1]

\* SeasonalityEngine.get_seasonality_signal(date_obj, origin, destination)
GetSeasonalitySignal(date_obj, origin, destination) ==
    IF SeasonalityDrivers(date_obj, origin, destination) = << >>
      THEN [signal_strength |-> 0, drivers |-> << >>]
      ELSE [signal_strength |->
                StrongestDriver(SeasonalityDrivers(date_obj, origin, destination)).strength,
            drivers |-> SeasonalityDrivers(date_obj, origin, destination),
            primary_driver |->
                StrongestDriver(SeasonalityDrivers(date_obj, origin, destination))]

\* WeatherSignalEngine.AIRPORT_TEMPS
AirportTemps ==
    [MIA |-> <<68, 70, 73, 77, 81, 84, 85, 85, 84, 80, 75, 70>>,
     FLL |-> <<67, 69, 72, 76, 80, 83, 84, 84, 83, 79, 74, 69>>,
     MCO |-> <<62, 64, 68, 73, 78, 82, 83, 83, 82, 76, 69, 63>>,
     TPA |-> <<61, 63, 67, 72, 78, 82, 83, 83, 82, 76, 69, 63>>,
     SJU |-> <<76, 77, 78, 79, 81, 83, 84, 84, 84, 83, 80, 77>>,
     CUN |-> <<75, 77, 80, 83, 86, 87, 87, 87, 86, 83, 79, 76>>,
     JFK |-> <<32, 35, 42, 53, 63, 72, 77, 76, 69, 58, 47, 37>>,
     EWR |-> <<32, 35, 43, 54, 64, 73, 78, 77, 70, 58, 47, 37>>,
     BOS |-> <<29, 32, 39, 49, 59, 68, 74, 73, 66, 55, 45, 34>>,
     PHL |-> <<33, 36, 44, 55, 65, 74, 79, 78, 71, 59, 48, 38>>,
     ORD |-> <<24, 29, 39, 51, 62, 72, 76, 75, 67, 55, 42, 29>>,
     DTW |-> <<25, 28, 37, 50, 61, 71, 75, 73, 66, 53, 42, 30>>,
     MSP |-> <<14, 20, 32, 48, 60, 70, 75, 72, 63, 49, 33, 19>>,
     LAX |-> <<58, 59, 60, 62, 65, 68, 72, 73, 72, 68, 62, 58>>,
     LAS |-> <<47, 52, 59, 67, 77, 87, 93, 91, 83, 70, 56, 47>>,
     DEN |-> <<32, 35, 42, 50, 59, 69, 76, 74, 65, 52, 40, 32>>,
     PHX |-> <<55, 59, 65, 73, 82, 92, 95, 93, 88, 77, 63, 54>>]

\* dest_temp - origin_temp of get_weather_signal
TempDiff(origin, destination, month) ==
    AirportTemps[destination][month] - AirportTemps[origin][month]

\* WeatherSignalEngine.get_weather_signal(origin, destination, month)
GetWeatherSignal(origin, destination, month) ==
    IF origin \notin DOMAIN AirportTemps \/ destination \notin DOMAIN AirportTemps
      THEN [signal_strength |-> 0, has_data |-> FALSE]
      ELSE [signal_strength |->
                IF TempDiff(origin, destination, month) > 30 THEN 100
                ELSE IF TempDiff(origin, destination, month) > 20 THEN 70
                ELSE IF TempDiff(origin, destination, month) > 10 THEN 40
                ELSE IF TempDiff(origin, destination, month) > 0 THEN 20
                ELSE 0,
            has_data |-> TRUE,
            temp_differential |-> TempDiff(origin, destination, month),
            segment |-> "leisure"]

\* TrendsSignalEngine._get_synthetic_signal(origin, destination), which is what
\* get_trends_signal_sync returns
GetTrendsSignalSync(origin, destination) ==
    [signal_strength |->
        IF destination \in {"MIA", "FLL", "MCO", "LAS", "CUN", "SJU", "PUJ", "MBJ"} THEN 70
        ELSE IF destination \in {"TPA", "SAN", "PHX", "DEN", "AUA", "SXM", "NAS"} THEN 50
        ELSE 30,
     has_data |-> FALSE,
     segment |-> "leisure",
     source |-> "synthetic"]

\* One entry of the signals dict, kept only if its strength is > 0.
Entry(key, value) ==
    IF value.signal_strength > 0 THEN << [key |-> key, value |-> value] >> ELSE << >>

\* max(signals.values(), key=lambda x: x['signal_strength']) if signals else None
RECURSIVE PrimarySignal(_)
PrimarySignal(entries) ==
    IF entries = << >> THEN NoValue
    ELSE IF Len(entries) = 1 THEN entries[1].value
    ELSE IF PrimarySignal(Tail(entries)).signal_strength > entries[1].value.signal_strength
      THEN PrimarySignal(Tail(entries))
      ELSE entries[1].value

\* the signals dict of get_all_signals, as its entries in insertion order
SignalEntries(args) ==
    Entry("cruise", GetCruiseSignal(args.destination, args.day_of_week))
    \o Entry("weather", GetWeatherSignal(args.origin, args.destination, args.month))
    \o (IF args.date_obj = << >> THEN << >>
          ELSE Entry("seasonality",
                     GetSeasonalitySignal(args.date_obj, args.origin, args.destination)))
    \o (IF args.include_trends
          THEN Entry("trends", GetTrendsSignalSync(args.origin, args.destination))
          ELSE << >>)

\* SegmentSignalAggregator.get_all_signals(origin, destination, day_of_week,
\* month, date_obj, include_trends); date_obj None is << >>.
GetAllSignalsValue(args) ==
    [route |-> << args.origin, args.destination >>,
     signals |-> SignalEntries(args),
     signal_count |-> Len(SignalEntries(args)),
     primary_signal |-> PrimarySignal(SignalEntries(args))]

\* A mix in ten-thousandths as weights in millionths.
ToWeights(mix) == [k \in Segments |-> mix[k] * 100]

\* boost = strength * coefficient, both in hundredths, in millionths
Boost(strength, coefficient) == strength * coefficient * 100

\* boost * 0.5, boost * 0.3, boost / 4: a share of the boost in hundredths
BoostShare(strength, coefficient, hundredths) == strength * coefficient * hundredths

\* Mutant: no ceiling on the boosted segment.
Uncapped(ceiling, weight) == weight

\* min(ceiling, weight)
Capped(ceiling, weight) == Min(ceiling, weight)

\* strength > 0.3
StrongEnough(strength) == strength > 30

\* Mutant: the cruise branch without the floors at 0.
CruiseBranchNoFloor(weights, strength) ==
    [weights EXCEPT
        !["cruise"] = Capped(500000, @ + Boost(strength, 15)),
        !["leisure"] = @ - BoostShare(strength, 15, 50),
        !["other"] = @ - BoostShare(strength, 15, 50)]

\* the cruise branch of adjust_segment_mix
CruiseBranch(weights, strength) ==
    [weights EXCEPT
        !["cruise"] = Capped(500000, @ + Boost(strength, 15)),
        !["leisure"] = Max(0, @ - BoostShare(strength, 15, 50)),
        !["other"] = Max(0, @ - BoostShare(strength, 15, 50))]

\* the weather branch of adjust_segment_mix
WeatherBranch(weights, strength) ==
    [weights EXCEPT
        !["leisure"] = Capped(600000, @ + Boost(strength, 10)),
        !["business"] = Max(0, @ - BoostShare(strength, 10, 50)),
        !["other"] = Max(0, @ - BoostShare(strength, 10, 50))]

\* signal_data.get('segment', 'vfr')
SeasonalitySegment(signal_data) ==
    IF "segment" \in DOMAIN signal_data THEN signal_data.segment ELSE "vfr"

\* the seasonality branch of adjust_segment_mix
SeasonalityBranch(weights, signal_data) ==
    [k \in Segments |->
        IF k = SeasonalitySegment(signal_data)
          THEN Capped(600000, weights[k] + Boost(signal_data.signal_strength, 10))
          ELSE Max(0, weights[k] - BoostShare(signal_data.signal_strength, 10, 25))]

\* the trends branch of adjust_segment_mix
TrendsBranch(weights, strength) ==
    [weights EXCEPT
        !["leisure"] = Capped(600000, @ + Boost(strength, 12)),
        !["business"] = Max(0, @ - BoostShare(strength, 12, 30)),
        !["other"] = Max(0, @ - BoostShare(strength, 12, 30))]

\* one pass of the loop of adjust_segment_mix
ApplySignal(weights, entry) ==
    IF entry.key = "cruise" /\ StrongEnough(entry.value.signal_strength)
      THEN CruiseBranch(weights, entry.value.signal_strength)
    ELSE IF entry.key = "weather" /\ StrongEnough(entry.value.signal_strength)
      THEN WeatherBranch(weights, entry.value.signal_strength)
    ELSE IF entry.key = "seasonality"
      THEN SeasonalityBranch(weights, entry.value)
    ELSE IF entry.key = "trends" /\ StrongEnough(entry.value.signal_strength)
      THEN TrendsBranch(weights, entry.value.signal_strength)
    ELSE weights

\* the weights after the first n signals of the loop
RECURSIVE WeightsAfter(_, _, _)
WeightsAfter(mix, entries, n) ==
    IF n = 0 THEN ToWeights(mix)
    ELSE ApplySignal(WeightsAfter(mix, entries, n - 1), entries[n])

\* SegmentSignalAggregator.adjust_segment_mix(base_mix, signals)
AdjustSegmentMixValue(mix, output) ==
    IF MixTotal(WeightsAfter(mix, output.signals, Len(output.signals))) > 0
      THEN Normalize(WeightsAfter(mix, output.signals, Len(output.signals)))
      ELSE mix

\* The orders in which a caller may hand over the signals map: as
\* get_all_signals built it, or rebuilt with the entries reversed.
Orders == {"as_built", "reversed"}

RECURSIVE Reverse(_)
Reverse(seq) == IF seq = << >> THEN << >> ELSE Append(Reverse(Tail(seq)), Head(seq))

InOrder(output, order) ==
    IF order = "reversed" THEN [output EXCEPT !.signals = Reverse(@)] ELSE output

\* date_obj as (month, day); << >> is None
DateInputs ==
    { << >>, <<7, 4>>, <<12, 31>>, <<12, 24>>, <<1, 6>>, <<1, 15>>,
      <<3, 15>>, <<5, 10>>, <<9, 4>>, <<11, 2>>, <<1, 1>>, <<8, 31>>, <<8, 29>> }

SignalArgInputs ==
    { [origin |-> o, destination |-> d, day_of_week |-> w, month |-> m,
       date_obj |-> dt, include_trends |-> t] :
        o \in {"JFK", "SJU"}, d \in {"MIA", "SJU", "CUN", "DTW"}, w \in 1 .. 7,
        m \in 1 .. 12, dt \in DateInputs, t \in BOOLEAN }

\* The month handed over is the date's month when there is a date, and
\* January, May or July without one.
SignalArgs ==
    { a \in SignalArgInputs :
        IF a.date_obj = << >> THEN a.month \in {1, 5, 7} ELSE a.month = a.date_obj[1] }

BaseMixInputs ==
    { MkMix(2500, 2500, 0, 2500, 2500),
      MkMix(2000, 5500, 1000, 1000, 500),
      MkMix(5800, 3000, 0, 1000, 200),
      MkMix(1000, 2000, 4500, 2000, 500),
      MkMix(0, 0, 0, 0, 0) }

SignalsInit ==
    /\ signal_args \in SignalArgs
    /\ base_mix \in BaseMixInputs
    /\ signals = NoValue
    /\ adjusted_mix = [o \in Orders |-> NoValue]

SignalsIdle ==
    /\ signal_args = NoValue
    /\ base_mix = NoValue
    /\ signals = NoValue
    /\ adjusted_mix = << >>

\* signals = aggregator.get_all_signals(...)
GetAllSignals ==
    /\ signals' = GetAllSignalsValue(signal_args)
    /\ adjusted_mix' = [o \in Orders |-> NoValue]
    /\ UNCHANGED <<signal_args, base_mix>>
    /\ UNCHANGED notSignals

\* aggregator.adjust_segment_mix(base_mix, signals), the map in one order
AdjustSegmentMix(order) ==
    /\ signals # NoValue
    /\ adjusted_mix' = [adjusted_mix EXCEPT ![order] = AdjustSegmentMixValue(base_mix, InOrder(signals, order))]
    /\ UNCHANGED <<signal_args, base_mix, signals>>
    /\ UNCHANGED notSignals

SignalsNext ==
    \/ GetAllSignals
    \/ \E order \in Orders : AdjustSegmentMix(order)

(***************************************************************************)
(* TrendsSignalEngine.get_trends_signal: an async call, split at its await. *)
(***************************************************************************)
CacheTtl == 3600

MaxClock == 3600

MaxTasks == 2

Tasks == 1 .. MaxTasks

ClockSteps == {1800}

TrendsRoutes == { << "DTW", "MIA" >>, << "DTW", "TPA" >> }

\* cache_key = f"{origin}_{destination}"
CacheKey(origin, destination) == origin \o "_" \o destination

TrendsKeys == { CacheKey(r[1], r[2]) : r \in TrendsRoutes }

\* What the awaited trends_client.get_route_demand_signal can do: reply with
\* success, reply with success but without the fields read, reply without
\* success, or raise.
ClientReplies ==
    { [kind |-> "success", signal_strength |-> s] : s \in {40, 90} }
        \cup { [kind |-> k, signal_strength |-> 0] :
                  k \in {"incomplete", "unsuccessful", "exception"} }

\* signal_data built from a successful reply (lines 370-378)
LiveSignal(reply) ==
    [signal_strength |-> reply.signal_strength,
     has_data |-> TRUE,
     segment |-> "leisure",
     source |-> "google_trends"]

\* Mutant: an entry is still served when it is exactly _cache_ttl old.
FreshInclusive(cached, now) == now - cached.timestamp <= CacheTtl

\* datetime.now().timestamp() - cached.get('timestamp', 0) < self._cache_ttl
Fresh(cached, now) == now - cached.timestamp < CacheTtl

\* Mutant: the synthetic fallback is stored like a live result.
CacheAfterFallbackStored(cache, key, origin, destination, now) ==
    [cache EXCEPT ![key] = [timestamp |-> now,
                            data |-> GetTrendsSignalSync(origin, destination)]]

\* self._cache after the fall-through to _get_synthetic_signal: untouched.
CacheAfterFallback(cache, key, origin, destination, now) == cache

CallReturned(origin, destination, value, served, reply) ==
    [pc |-> "returned", origin |-> origin, destination |-> destination,
     value |-> value, served |-> served, at |-> clock, reply |-> reply]

TrendsInit ==
    /\ trends_client \in BOOLEAN
    /\ trends_cache = [k \in TrendsKeys |-> NoValue]
    /\ clock = 0
    /\ call = [t \in Tasks |-> [pc |-> "idle"]]
    /\ live_stores = {}

TrendsIdle ==
    /\ trends_client = FALSE
    /\ trends_cache = << >>
    /\ clock = 0
    /\ call = << >>
    /\ live_stores = {}

\* get_trends_signal(origin, destination) up to its await or, without one, to
\* its return (lines 362-368 and 391).
GetTrendsSignal(t, origin, destination) ==
    LET cache_key == CacheKey(origin, destination)
    IN /\ call[t].pc # "awaiting"
       /\ IF trends_cache[cache_key] # NoValue /\ Fresh(trends_cache[cache_key], clock)
            THEN /\ call' = [call EXCEPT ![t] =
                        CallReturned(origin, destination, trends_cache[cache_key].data,
                                 "cache", "none")]
                 /\ UNCHANGED trends_cache
            ELSE IF trends_client
              THEN /\ call' = [call EXCEPT ![t] =
                        [pc |-> "awaiting", origin |-> origin, destination |-> destination]]
                   /\ UNCHANGED trends_cache
              ELSE /\ call' = [call EXCEPT ![t] =
                        CallReturned(origin, destination,
                                 GetTrendsSignalSync(origin, destination),
                                 "synthetic", "none")]
                   /\ trends_cache' = CacheAfterFallback(trends_cache, cache_key,
                                                         origin, destination, clock)
       /\ UNCHANGED <<trends_client, clock, live_stores>>
       /\ UNCHANGED notTrends

\* The rest of the call once the client has answered (lines 369-391): a
\* successful reply is stored and returned; a reply without the fields read
\* raises KeyError inside the try, which like any exception of the client
\* is swallowed; every other path returns the synthetic signal.
ClientAnswers(t, reply) ==
    LET origin == call[t].origin
        destination == call[t].destination
        cache_key == CacheKey(origin, destination)
    IN /\ call[t].pc = "awaiting"
       /\ IF reply.kind = "success"
            THEN /\ trends_cache' = [trends_cache EXCEPT ![cache_key] =
                        [timestamp |-> clock, data |-> LiveSignal(reply)]]
                 /\ live_stores' = live_stores \cup
                        { [key |-> cache_key, timestamp |-> clock, data |-> LiveSignal(reply)] }
                 /\ call' = [call EXCEPT ![t] =
                        CallReturned(origin, destination, LiveSignal(reply), "live", reply.kind)]
            ELSE /\ trends_cache' = CacheAfterFallback(trends_cache, cache_key,
                                                       origin, destination, clock)
                 /\ call' = [call EXCEPT ![t] =
                        CallReturned(origin, destination,
                                 GetTrendsSignalSync(origin, destination),
                                 "synthetic", reply.kind)]
                 /\ UNCHANGED live_stores
       /\ UNCHANGED <<trends_client, clock>>
       /\ UNCHANGED notTrends

\* Time passes.
Tick(dt) ==
    /\ clock + dt <= MaxClock
    /\ clock' = clock + dt
    /\ UNCHANGED <<trends_client, trends_cache, call, live_stores>>
    /\ UNCHANGED notTrends

TrendsNext ==
    \/ \E t \in Tasks : \E r \in TrendsRoutes : GetTrendsSignal(t, r[1], r[2])
    \/ \E t \in Tasks : \E reply \in ClientReplies : ClientAnswers(t, reply)
    \/ \E dt \in ClockSteps : Tick(dt)

(***************************************************************************)
(* The Decision OS endpoints of main.py.                                   *)
(***************************************************************************)
MaxDecisions == 2

MaxAuditLog == 4

DecisionIds == 1 .. MaxDecisions

\* The values a caller puts into DecisionUpdate.status; "" stands for an
\* update without a status.
UpdateStatusInputs == {"", "approved", "executing", "completed"}

\* The entry create_decision starts the audit_log with (lines 2099-2105).
CreatedEntry ==
    [action |-> "CREATED", from_status |-> NoValue, to_status |-> [s |-> "proposed"]]

AuditEntry(action, from_status, to_status) ==
    [action |-> action, from_status |-> [s |-> from_status], to_status |-> [s |-> to_status]]

\* decision['status'] = status; decision['audit_log'].append(entry)
WithStatus(decision, status, entry) ==
    [decision EXCEPT !.status = status, !.audit_log = Append(@, entry)]

DecisionInit ==
    /\ decision_store = << >>
    /\ decision_log = << >>
    /\ response = 0
    /\ approved_before = {}

DecisionIdle ==
    /\ decision_store = << >>
    /\ decision_log = << >>
    /\ response = 0
    /\ approved_before = {}

Known(decision_id) == decision_id \in DOMAIN decision_store

HasRoom(decision_id) == Len(decision_store[decision_id].audit_log) < MaxAuditLog

NotFound ==
    /\ response' = 404
    /\ UNCHANGED <<decision_store, decision_log, approved_before>>

\* create_decision(decision): the new id is one the store does not hold.
CreateDecision ==
    /\ Len(decision_store) < MaxDecisions
    /\ decision_store' = Append(decision_store,
            [status |-> "proposed", approvals_received |-> << >>,
             audit_log |-> << CreatedEntry >>])
    /\ decision_log' = Append(decision_log,
            [decision_id |-> Len(decision_store) + 1, from_status |-> NoValue,
             to_status |-> [s |-> "proposed"]])
    /\ response' = 200
    /\ UNCHANGED approved_before
    /\ UNCHANGED notDecision

\* update_decision(decision_id, update)
UpdateDecision(decision_id, status) ==
    /\ IF ~Known(decision_id) THEN NotFound
       ELSE /\ HasRoom(decision_id)
            /\ LET decision == decision_store[decision_id]
                   old_status == decision.status
               IN IF status # ""
                    THEN /\ decision_store' = [decision_store EXCEPT ![decision_id] =
                                WithStatus(decision, status,
                                    AuditEntry("Status changed", old_status, status))]
                         /\ approved_before' =
                                IF status = "approved" THEN approved_before \cup {decision_id}
                                ELSE approved_before
                    ELSE UNCHANGED <<decision_store, approved_before>>
            /\ response' = 200
            /\ UNCHANGED decision_log
    /\ UNCHANGED notDecision

\* simulate_decision(decision_id)
SimulateDecision(decision_id) ==
    /\ IF ~Known(decision_id) THEN NotFound
       ELSE /\ HasRoom(decision_id)
            /\ decision_store' = [decision_store EXCEPT ![decision_id] =
                    WithStatus(@, "simulated",
                        AuditEntry("Simulation completed", "proposed", "simulated"))]
            /\ response' = 200
            /\ UNCHANGED <<decision_log, approved_before>>
    /\ UNCHANGED notDecision

\* approve_decision(decision_id, approval): the status is set first, the
\* audit entry reads decision.get('status') afterwards.
ApproveDecision(decision_id, approved) ==
    /\ IF ~Known(decision_id) THEN NotFound
       ELSE /\ HasRoom(decision_id)
            /\ LET new_status == IF approved THEN "approved" ELSE "rejected"
                   decided == [decision_store[decision_id] EXCEPT
                                  !.status = new_status,
                                  !.approvals_received = Append(@, approved)]
               IN decision_store' = [decision_store EXCEPT ![decision_id] =
                      WithStatus(decided, new_status,
                          AuditEntry(IF approved THEN "Decision approved"
                                     ELSE "Decision rejected",
                                     decided.status, new_status))]
            /\ approved_before' =
                    IF approved THEN approved_before \cup {decision_id} ELSE approved_before
            /\ response' = 200
            /\ UNCHANGED decision_log
    /\ UNCHANGED notDecision

\* execute_decision(decision_id)
ExecuteDecision(decision_id) ==
    /\ IF ~Known(decision_id) THEN NotFound
       ELSE IF decision_store[decision_id].status # "approved"
         THEN /\ response' = 400
              /\ UNCHANGED <<decision_store, decision_log, approved_before>>
         ELSE /\ HasRoom(decision_id)
              /\ decision_store' = [decision_store EXCEPT ![decision_id] =
                      WithStatus(@, "executing",
                          AuditEntry("Execution started", "approved", "executing"))]
              /\ response' = 200
              /\ UNCHANGED <<decision_log, approved_before>>
    /\ UNCHANGED notDecision

DecisionNext ==
    \/ CreateDecision
    \/ \E id \in DecisionIds : \E status \in UpdateStatusInputs : UpdateDecision(id, status)
    \/ \E id \in DecisionIds : SimulateDecision(id)
    \/ \E id \in DecisionIds : \E approved \in BOOLEAN : ApproveDecision(id, approved)
    \/ \E id \in DecisionIds : ExecuteDecision(id)

(***************************************************************************)
(* Specifications: one per component, the other components idle.           *)
(***************************************************************************)
InitOpt == OptInit /\ SwapIdle /\ CasmIdle /\ PriorIdle /\ DecompIdle /\ SignalsIdle /\ TrendsIdle /\ DecisionIdle

NextOpt == OptNext

SpecOpt == InitOpt /\ [][NextOpt]_vars

InitSwap == SwapInit /\ OptIdle /\ CasmIdle /\ PriorIdle /\ DecompIdle /\ SignalsIdle /\ TrendsIdle /\ DecisionIdle

NextSwap == SwapNext

SpecSwap == InitSwap /\ [][NextSwap]_vars

InitCasm == CasmInit /\ OptIdle /\ SwapIdle /\ PriorIdle /\ DecompIdle /\ SignalsIdle /\ TrendsIdle /\ DecisionIdle

NextCasm == CasmNext

SpecCasm == InitCasm /\ [][NextCasm]_vars

InitPrior == PriorInit /\ OptIdle /\ SwapIdle /\ CasmIdle /\ DecompIdle /\ SignalsIdle /\ TrendsIdle /\ DecisionIdle

NextPrior == PriorNext

SpecPrior == InitPrior /\ [][NextPrior]_vars

InitDecomp == DecompInit /\ OptIdle /\ SwapIdle /\ CasmIdle /\ PriorIdle /\ SignalsIdle /\ TrendsIdle /\ DecisionIdle

NextDecomp == DecompNext

SpecDecomp == InitDecomp /\ [][NextDecomp]_vars

InitSignals == SignalsInit /\ OptIdle /\ SwapIdle /\ CasmIdle /\ PriorIdle /\ DecompIdle /\ TrendsIdle /\ DecisionIdle

NextSignals == SignalsNext

SpecSignals == InitSignals /\ [][NextSignals]_vars

InitTrends == TrendsInit /\ OptIdle /\ SwapIdle /\ CasmIdle /\ PriorIdle /\ DecompIdle /\ SignalsIdle /\ DecisionIdle

NextTrends == TrendsNext

SpecTrends == InitTrends /\ [][NextTrends]_vars

InitDecision == DecisionInit /\ OptIdle /\ SwapIdle /\ CasmIdle /\ PriorIdle /\ DecompIdle /\ SignalsIdle /\ TrendsIdle

NextDecision == DecisionNext

SpecDecision == InitDecision /\ [][NextDecision]_vars

(***************************************************************************)
(* Properties of FrequencyOptimizer.optimize.                              *)
(***************************************************************************)
Returned == result # NoValue

IsOptimal == Returned /\ result.status = "Optimal"

\* The frequency of (route, type) read back from
\* decisions.frequencies[route].by_equipment, 0 when absent.
DecidedFreq(rk, ac) ==
    LET F == result.decisions.frequencies
    IN IF rk \in DOMAIN F /\ ac \in DOMAIN F[rk].by_equipment
         THEN F[rk].by_equipment[ac] ELSE 0

DecidedTotal(rk) ==
    LET F == result.decisions.frequencies
    IN IF rk \in DOMAIN F THEN F[rk].total ELSE 0

RoutesFrom(base) == {rk \in DOMAIN routes : routes[rk].origin = base}

\* Available aircraft of a type at a base, counted from the fleet list.
AvailableCount(ac, base) ==
    Cardinality({i \in DOMAIN fleet :
                    /\ fleet[i].available
                    /\ fleet[i].aircraft_type = ac
                    /\ fleet[i].home_base = base})

HomeBases == {fleet[i].home_base : i \in DOMAIN fleet} \cup {routes[rk].origin : rk \in DOMAIN routes}

DecidedTypeAtBase(ac, base) ==
    SumOver(RoutesFrom(base), [rk \in RoutesFrom(base) |-> DecidedFreq(rk, ac)])

DecidedAtBase(base) ==
    SumOver(RoutesFrom(base), [rk \in RoutesFrom(base) |-> DecidedTotal(rk)])

DecidedSeats(rk) ==
    Seats("A319") * DecidedFreq(rk, "A319") + Seats("A320neo") * DecidedFreq(rk, "A320neo")
        + Seats("A321neo") * DecidedFreq(rk, "A321neo")

\* C1: in every Optimal result, for every (aircraft type, base) with N >= 1
\* available aircraft, the frequencies of that type over the routes
\* originating at the base sum to at most 5 * N.
C1_FleetLimit ==
    IsOptimal =>
        \A ac \in AcTypes, base \in HomeBases :
            AvailableCount(ac, base) >= 1 =>
                DecidedTypeAtBase(ac, base) <= 5 * AvailableCount(ac, base)

\* An Optimal result in which a fleet limit is used up exactly.
C1_Witness ==
    /\ IsOptimal
    /\ \E ac \in AcTypes, base \in HomeBases :
          /\ AvailableCount(ac, base) >= 1
          /\ DecidedTypeAtBase(ac, base) = 5 * AvailableCount(ac, base)

\* C2: in every Optimal result, a (route, type) pair whose origin base has
\* no available aircraft of the type (none listed, or all unavailable) gets
\* frequency 0.
C2_NoAircraftNoFlights ==
    IsOptimal =>
        \A rk \in DOMAIN routes, ac \in AcTypes :
            AvailableCount(ac, routes[rk].origin) = 0 => DecidedFreq(rk, ac) = 0

\* C3: in every Optimal result, for every base with a crew record of P
\* pilots the total frequency of the routes originating there is at most
\* floor(P * 4 / 2).
C3_CrewLimit ==
    IsOptimal =>
        \A b \in DOMAIN crew_bases :
            2 * DecidedAtBase(b) <= crew_bases[b].pilots_available * 4

\* An Optimal result that uses up the pilots of a base.
C3_Witness ==
    /\ IsOptimal
    /\ \E b \in DOMAIN crew_bases :
          /\ RoutesFrom(b) # {}
          /\ DecidedAtBase(b) > 0
          /\ 2 * DecidedAtBase(b) = crew_bases[b].pilots_available * 4

\* C4: in every Optimal result the seats scheduled on a route are at most
\* 1.2 * daily_demand, and a route with no demand is absent from
\* decisions.frequencies.
C4_DemandCap ==
    IsOptimal =>
        \A rk \in DOMAIN routes :
            /\ 5 * DecidedSeats(rk) <= 6 * routes[rk].daily_demand
            /\ routes[rk].daily_demand = 0 =>
                  /\ rk \notin DOMAIN result.decisions.frequencies
                  /\ \A ac \in AcTypes : solution[rk][ac] = 0

\* An Optimal result with a route without demand left out and a route filled
\* to within one smallest aircraft of its cap.
C4_Witness ==
    /\ IsOptimal
    /\ \E rk \in DOMAIN routes : routes[rk].daily_demand = 0
    /\ \E rk \in DOMAIN routes :
          /\ DecidedSeats(rk) > 0
          /\ 5 * (DecidedSeats(rk) + Seats("A319")) > 6 * routes[rk].daily_demand

\* The decided frequencies lie within the variable bounds and meet the
\* fleet, crew and demand-cap limits as the program states them.
DecidedWithinLimits ==
    /\ \A rk \in DOMAIN routes :
          /\ \A ac \in AcTypes : DecidedFreq(rk, ac) \in 0 .. routes[rk].max_frequency
          /\ 5 * DecidedSeats(rk) <= 6 * routes[rk].daily_demand
    /\ \A k \in DOMAIN fleet_by_type_base :
          DecidedTypeAtBase(k[1], k[2]) <= 5 * fleet_by_type_base[k]
    /\ \A b \in DOMAIN crew_bases :
          DecidedAtBase(b) <= 2 * crew_bases[b].pilots_available

\* C5: in every Optimal result each route with min_frequency > 0 is flown at
\* least min_frequency times, by an assignment within the variable bounds and
\* the fleet, crew and demand-cap limits; so when no such assignment reaches
\* the minimum the status is not Optimal.
C5_MinFrequency ==
    IsOptimal =>
        /\ \A rk \in DOMAIN routes :
              routes[rk].min_frequency > 0 =>
                  /\ rk \in DOMAIN result.decisions.frequencies
                  /\ DecidedTotal(rk) >= routes[rk].min_frequency
        /\ DecidedWithinLimits

\* An Optimal result that flies a loss-making route exactly at its minimum.
C5_Witness ==
    /\ IsOptimal
    /\ objective = "profit"
    /\ \E rk \in DOMAIN routes :
          /\ routes[rk].min_frequency > 0
          /\ DecidedTotal(rk) = routes[rk].min_frequency
          /\ \A ac \in AcTypes : RevenueCoef(rk, ac) < CostCoef(rk, ac)

\* C6: a solver status other than Optimal is returned, not raised: the result
\* carries the solver's status, empty decisions, zero objective_value,
\* total_revenue, total_asm and total_cost, and exactly one recommendation,
\* of type 'error'.
C6_NonOptimalResult ==
    (solver_status # "" /\ solver_status # "Optimal") =>
        /\ Returned
        /\ result.status = solver_status
        /\ DOMAIN result.decisions = {}
        /\ result.objective_value.num = 0
        /\ result.total_revenue = 0
        /\ result.total_asm = 0
        /\ result.total_cost = 0
        /\ Len(result.recommendations) = 1
        /\ result.recommendations[1].type = "error"

\* A solve stopped by its time limit although feasible schedules with flights
\* exist: nothing of them is surfaced.
C6_Witness ==
    /\ Returned
    /\ solver_status = "Not Solved"
    /\ result.status = "Not Solved"
    /\ \E rk \in DOMAIN routes : routes[rk].daily_demand >= 300 /\ routes[rk].min_frequency = 0

\* The documented end-to-end scenario: DTW-MCO, 950 nm, demand 300, fare 120,
\* max_frequency 4; three available A320neo at DTW; 20 pilots and 40 flight
\* attendants at DTW; objective 'profit'.
IsScenario ==
    /\ routes = [k \in {<<"DTW", "MCO">>} |-> MkRoute("DTW", "MCO", 950, 300, 120, 0, 4)]
    /\ fleet = Repeat([aircraft_type |-> "A320neo", home_base |-> "DTW", available |-> TRUE], 3)
    /\ crew_bases = [b \in {"DTW"} |->
                        [base |-> "DTW", pilots_available |-> 20, fas_available |-> 40]]
    /\ objective = "profit"

Evaluated == options # << >>

CurrentEntries == {i \in DOMAIN options : options[i].option = "Current"}

Alternatives == {i \in DOMAIN options : options[i].option # "Current"}

\* C8: evaluate_options returns exactly one option labelled 'Current', and
\* its delta_profit and delta_rasm are exactly 0.
C8_CurrentIsBaseline ==
    Evaluated =>
        /\ Cardinality(CurrentEntries) = 1
        /\ \A i \in CurrentEntries :
              options[i].delta_profit = 0 /\ options[i].delta_rasm = 0

\* A ranked list in which the baseline, with a non-zero profit and rasm of
\* its own, stands between better and worse alternatives.
C8_Witness ==
    /\ Evaluated
    /\ \E i \in CurrentEntries :
          /\ options[i].profit # 0
          /\ options[i].rasm_cents # 0
          /\ 1 < i
          /\ i < Len(options)

\* The tag the stated thresholds give for the reported deltas (delta_profit
\* in dollars, delta_rasm in hundredths of a cent).
TagOfReported(delta_profit, delta_rasm) ==
    IF delta_profit > 5000 /\ delta_rasm > 50 THEN "strongly_recommended"
    ELSE IF delta_profit > 2000 /\ delta_rasm > 0 THEN "recommended"
    ELSE IF delta_profit > 0 THEN "consider"
    ELSE IF delta_profit < -2000 THEN "avoid"
    ELSE "neutral"

\* C9: the recommendation of every non-Current option is the first match of
\* the thresholds on the option's reported delta_profit and delta_rasm; in
\* particular delta_profit < -2000 is tagged 'avoid'.
C9_TagMatchesReportedDeltas ==
    \A i \in Alternatives :
        /\ options[i].recommendation
              = TagOfReported(options[i].delta_profit, options[i].delta_rasm)
        /\ options[i].delta_profit < -2000 => options[i].recommendation = "avoid"

\* C10: every non-Current option has a frequency within [1, max_frequency]
\* that differs from the current frequency by at most 1, and none repeats the
\* current state (the seats and the frequency of the Current option).
C10_AlternativesDiffer ==
    \A i \in Alternatives :
        /\ options[i].frequency \in 1 .. route.max_frequency
        /\ options[i].frequency - current_freq \in {-1, 0, 1}
        /\ \A c \in CurrentEntries :
              ~(options[i].seats = options[c].seats
                  /\ options[i].frequency = options[c].frequency)

\* C11: evaluate_options returns its options in non-increasing order of
\* delta_profit, and get_best_option returns an option of maximal
\* delta_profit, among tied ones the first in enumeration order (Current,
\* then each aircraft type in spec order with frequency deltas -1, 0, +1).
C11_RankedAndBestIsFirstMax ==
    /\ \A i, j \in DOMAIN options :
          i < j => options[i].delta_profit >= options[j].delta_profit
    /\ best # NoValue =>
          \E j \in DOMAIN Enumerated(9) :
              /\ Enumerated(9)[j] = best
              /\ \A k \in DOMAIN Enumerated(9) :
                    Enumerated(9)[k].delta_profit <= best.delta_profit
              /\ \A k \in 1 .. j - 1 :
                    Enumerated(9)[k].delta_profit < best.delta_profit

\* Both operations have run on a route where two different options tie at
\* the largest delta_profit.
C11_Witness ==
    /\ Evaluated
    /\ best # NoValue
    /\ Len(options) >= 3
    /\ options[1].delta_profit = options[2].delta_profit
    /\ options[1] # options[2]
    /\ options[2].delta_profit > options[Len(options)].delta_profit

(***************************************************************************)
(* Properties of calculate_stage_length_casm.                              *)
(***************************************************************************)
BothCasmReturned == casm_a # NoValue /\ casm_b # NoValue

\* C17 (as stated): for every pair of distances 0 < d1 < d2,
\* casm(d1) > casm(d2) > base_casm.
C17_StrictlyDecreasingEverywhere ==
    (BothCasmReturned /\ distance_a.mant > 0 /\ DistanceLess(distance_a, distance_b)) =>
        CasmGreater(casm_a, casm_b) /\ CasmGreater(casm_b, BaseCasm)

\* C17 (amended): for whole-number distances 0 < d1 < d2 up to 20000 nm and
\* the default base_casm, casm(d1) > casm(d2) > 10.5; in particular
\* casm(500) > casm(1000) > casm(1500) > casm(2000).
C17_StrictlyDecreasingWholeMiles ==
    (/\ BothCasmReturned
     /\ distance_a.exp = 0 /\ distance_b.exp = 0
     /\ distance_a.mant > 0 /\ DistanceLess(distance_a, distance_b)) =>
        CasmGreater(casm_a, casm_b) /\ CasmGreater(casm_b, BaseCasm)

\* casm(1500) and casm(2000) have both been computed.
C17_Witness ==
    /\ BothCasmReturned
    /\ distance_a = MkDistance(1500, 0)
    /\ distance_b = MkDistance(2000, 0)

(***************************************************************************)
(* Properties of the geography prior.                                      *)
(***************************************************************************)
IsJfkCun == prior_origin = "JFK" /\ prior_destination = "CUN"

\* C16 (as stated): infer_route_segment_profile('JFK', 'CUN') returns a mix
\* whose shares sum to 1.0, with leisure about 0.50 and VFR about 0.30 (here:
\* within 0.02 of these values).
C16_JfkCunAsStated ==
    (IsJfkCun /\ prior_profile # NoValue) =>
        /\ MixTotal(prior_profile) = 10000
        /\ prior_profile["leisure"] \in 4800 .. 5200
        /\ prior_profile["vfr"] \in 2800 .. 3200

\* C16 (amended): infer_route_segment_profile('JFK', 'CUN') returns leisure
\* 0.5556, vfr 0.3333, business 0.1111, cruise 0 and other 0, which sum to
\* 1.0: the beach-resort weights 0.50/0.30/0.10 add up to 0.90 and are
\* divided by it.
C16_JfkCunNormalized ==
    (IsJfkCun /\ prior_profile # NoValue) =>
        /\ MixTotal(prior_profile) = 10000
        /\ prior_profile = MkMix(3333, 5556, 0, 1111, 0)

C16_Witness == IsJfkCun /\ prior_profile # NoValue

(***************************************************************************)
(* Properties of DemandDecomposer.                                         *)
(***************************************************************************)
\* Every share >= 0 and the shares sum to 1.0.
ValidMix(mix) ==
    /\ ~IsRaised(mix)
    /\ \A k \in Segments : mix[k] >= 0
    /\ MixTotal(mix) = 10000

\* The rows of exactly the ordered pair.
ExactRows(pair) == { r \in df.rows : r.origin = pair[1] /\ r.destination = pair[2] }

\* The pairs decompose_route has been called for.
Asked == { pair \in RoutePairs : last_result[pair] # NoValue }

\* The mix a stage returned is valid whenever the mix it was given is.
StageKeepsValid(input, output) ==
    (ValidMix(input) /\ ~IsRaised(output)) => ValidMix(output)

\* C12: the geography prior and each refinement stage (day of week, spill,
\* fare), given a mix with shares >= 0 that sum to 1.0, return a mix with
\* shares >= 0 that sum to 1.0 (within 1e-6).
C12_StagesKeepUnitSum ==
    \A pair \in Asked :
        "segment_mix" \in DOMAIN last_result[pair] =>
            /\ ValidMix(StageTrace(df, pair[1], pair[2]).base_profile)
            /\ StageKeepsValid(StageTrace(df, pair[1], pair[2]).base_profile,
                               StageTrace(df, pair[1], pair[2]).dow_refined)
            /\ StageKeepsValid(StageTrace(df, pair[1], pair[2]).dow_refined,
                               StageTrace(df, pair[1], pair[2]).spill_refined)
            /\ StageKeepsValid(StageTrace(df, pair[1], pair[2]).spill_refined,
                               StageTrace(df, pair[1], pair[2]).final_profile)

\* C13: for a route that has rows, a missing optional column raises nothing:
\* the stage whose column is missing returns its input unchanged and the call
\* returns a result with a segment_mix.
C13_MissingColumnIsPassThrough ==
    \A pair \in Asked :
        (ExactRows(pair) # {} /\ df.columns # OptionalColumns) =>
            /\ ~IsRaised(last_result[pair])
            /\ "segment_mix" \in DOMAIN last_result[pair]
            /\ "dow" \notin df.columns =>
                  StageTrace(df, pair[1], pair[2]).dow_refined
                    = StageTrace(df, pair[1], pair[2]).base_profile
            /\ "spill_rate" \notin df.columns =>
                  StageTrace(df, pair[1], pair[2]).spill_refined
                    = StageTrace(df, pair[1], pair[2]).dow_refined
            /\ ("constrained_local_fare" \notin df.columns
                  \/ "unconstrained_local_fare" \notin df.columns) =>
                  StageTrace(df, pair[1], pair[2]).final_profile
                    = StageTrace(df, pair[1], pair[2]).spill_refined

\* C14: decompose_route(origin, destination) uses only the rows of exactly
\* that ordered pair; with no such row it returns, without raising, a result
\* that carries an error and no segment_mix, even when the reverse pair has
\* rows.
C14_ExactDirectionOnly ==
    \A pair \in Asked :
        /\ ExactRows(pair) = {} => DOMAIN last_result[pair] = {"error"}
        /\ "total_records" \in DOMAIN last_result[pair] =>
              last_result[pair].total_records = Cardinality(ExactRows(pair))

\* decompose_route was asked for a pair that has no rows while the reverse
\* pair has some.
C14_Witness ==
    \E pair \in Asked :
        /\ ExactRows(pair) = {}
        /\ ExactRows(<< pair[2], pair[1] >>) # {}

AdjustedOrders == { o \in DOMAIN adjusted_mix : adjusted_mix[o] # NoValue }

\* The entries of the signals map in the given order.
EntriesIn(order) == InOrder(signals, order).signals

\* The coefficient, the ceiling and the target segment the claims name for
\* each signal; the seasonality target is the one the code applies.
CoefficientOf(key) ==
    CASE key = "cruise" -> 15 [] key = "weather" -> 10
      [] key = "seasonality" -> 10 [] key = "trends" -> 12

CeilingOf(key) == IF key = "cruise" THEN 500000 ELSE 600000

TargetOf(entry) ==
    CASE entry.key = "cruise" -> "cruise"
      [] entry.key = "seasonality" -> SeasonalitySegment(entry.value)
      [] OTHER -> "leisure"

\* The n-th signal of the loop raised the weight of the segment by
\* strength * coefficient, up to the ceiling.
RaisedBy(order, n, segment, coefficient, ceiling) ==
    WeightsAfter(base_mix, EntriesIn(order), n)[segment]
      = Min(ceiling,
            WeightsAfter(base_mix, EntriesIn(order), n - 1)[segment]
              + Boost(EntriesIn(order)[n].value.signal_strength, coefficient))

\* C18: adjust_segment_mix applies every signal of the signals map (each has
\* strength > 0): before renormalization the weight of the signal's target
\* segment is raised by strength * coefficient (cruise 0.15, weather 0.10,
\* seasonality 0.10, trends 0.12), limited only by the signal's ceiling.
C18_EverySignalBoosts ==
    \A order \in AdjustedOrders :
        \A n \in DOMAIN EntriesIn(order) :
            RaisedBy(order, n, TargetOf(EntriesIn(order)[n]),
                     CoefficientOf(EntriesIn(order)[n].key),
                     CeilingOf(EntriesIn(order)[n].key))

\* C19: when the seasonality signal of get_all_signals has a cultural holiday
\* as its primary driver, adjust_segment_mix boosts the segment the holiday
\* is tagged with.
C19_HolidayBoostsTaggedSegment ==
    \A order \in AdjustedOrders :
        \A n \in DOMAIN EntriesIn(order) :
            (/\ EntriesIn(order)[n].key = "seasonality"
             /\ EntriesIn(order)[n].value.primary_driver.type = "cultural_holiday") =>
                RaisedBy(order, n, EntriesIn(order)[n].value.primary_driver.segment,
                         10, 600000)

\* JFK-MIA on a Friday in January, no date, no trends: a cruise and a weather
\* signal, both of strength 1.0, on a base mix with leisure at 0.55.
IsOrderCase ==
    /\ signal_args = [origin |-> "JFK", destination |-> "MIA", day_of_week |-> 5,
                      month |-> 1, date_obj |-> << >>, include_trends |-> FALSE]
    /\ base_mix = MkMix(2000, 5500, 1000, 1000, 500)
    /\ AdjustedOrders = Orders

\* C20: the result of adjust_segment_mix depends on the order of the signals
\* map: for the base mix and the two signals of JFK-MIA on a Friday in
\* January, the map as built and the map reversed give different mixes.
C20_OrderDependent ==
    IsOrderCase => adjusted_mix["as_built"] # adjusted_mix["reversed"]

\* Both orders of that map have been adjusted, with the leisure share 0.5349
\* for the map as built and 0.5122 for the map reversed.
C20_Witness ==
    /\ IsOrderCase
    /\ Len(signals.signals) = 2
    /\ adjusted_mix["as_built"].leisure # adjusted_mix["reversed"].leisure

(***************************************************************************)
(* More properties of the geography prior.                                 *)
(***************************************************************************)
\* The category checks of infer_route_segment_profile, in the order the
\* claim names them.
CheckOrder ==
    << "cruise_ports", "beach_resort", "theme_park", "casino", "business_hub", "secondary" >>

CheckMatches(check) ==
    CASE check = "business_hub" ->
            /\ "business_hub" \in CategorizeAirport(prior_origin)
            /\ "business_hub" \in CategorizeAirport(prior_destination)
      [] check = "secondary" ->
            \/ "secondary" \in CategorizeAirport(prior_origin)
            \/ "secondary" \in CategorizeAirport(prior_destination)
      [] OTHER -> check \in CategorizeAirport(prior_destination)

MatchingChecks == SelectSeq(CheckOrder, CheckMatches)

\* The fixed profile of each check, in hundredths; the beach check gives
\* cruise 0.10 to a destination that is also a cruise port.
CheckProfile(check) ==
    CASE check = "cruise_ports" -> MkMix(25, 15, 20, 25, 15)
      [] check = "beach_resort" ->
            MkMix(30, 50, IF "cruise_ports" \in CategorizeAirport(prior_destination)
                            THEN 10 ELSE 0, 10, 0)
      [] check = "theme_park" -> MkMix(40, 45, 0, 10, 5)
      [] check = "casino" -> MkMix(20, 55, 0, 15, 10)
      [] check = "business_hub" -> MkMix(30, 25, 0, 35, 10)
      [] check = "secondary" -> MkMix(45, 30, 0, 15, 10)

\* C22: a route that matches several checks gets the normalized profile of
\* the last matching one, and every route with a secondary origin or
\* destination gets vfr 0.45, leisure 0.30, cruise 0, business 0.15,
\* other 0.10.
C22_LastMatchingCheckWins ==
    (prior_profile # NoValue /\ MatchingChecks # << >>) =>
        /\ prior_profile = Normalize(CheckProfile(MatchingChecks[Len(MatchingChecks)]))
        /\ CheckMatches("secondary") => prior_profile = MkMix(4500, 3000, 0, 1500, 1000)

\* The prior of ATL-JAX: the destination is a cruise port and a secondary
\* market.
C22_Witness ==
    /\ prior_origin = "ATL"
    /\ prior_destination = "JAX"
    /\ Len(MatchingChecks) = 2
    /\ prior_profile = MkMix(4500, 3000, 0, 1500, 1000)

(***************************************************************************)
(* More properties of DemandDecomposer.                                    *)
(***************************************************************************)
\* C29: where the geography prior of a route has cruise share 0, every stage
\* of decompose_route and the segment_mix it returns have cruise share 0,
\* whatever the schedule rows.
C29_NoCruiseFromZero ==
    \A pair \in Asked :
        (/\ "segment_mix" \in DOMAIN last_result[pair]
         /\ InferRouteSegmentProfile(pair[1], pair[2])["cruise"] = 0) =>
            /\ last_result[pair].segment_mix["cruise"] = 0
            /\ StageTrace(df, pair[1], pair[2]).dow_refined["cruise"] = 0
            /\ StageTrace(df, pair[1], pair[2]).spill_refined["cruise"] = 0

\* decompose_route('ABQ', 'DTW') on a frame with every column whose ABQ-DTW
\* rows include the Saturday row (a Saturday spike with a high spill rate).
C29_Witness ==
    /\ df.columns = OptionalColumns
    /\ \E r \in ExactRows(<<"ABQ", "DTW">>) : r.dow = 6 /\ r.spill_rate > 10
    /\ "segment_mix" \in DOMAIN last_result[<<"ABQ", "DTW">>]
    /\ last_result[<<"ABQ", "DTW">>].segment_mix["cruise"] = 0

(***************************************************************************)
(* Properties of SeasonalityEngine.                                        *)
(***************************************************************************)
\* Days of the year before each month, and the calendar distance in days
\* between two (month, day) dates, around the year end too.
DaysBefore == << 0, 31, 59, 90, 120, 151, 181, 212, 243, 273, 304, 334 >>

DayOfYear(month, day) == DaysBefore[month] + day

CalendarDiff(date_obj, holiday) ==
    LET a == DayOfYear(date_obj[1], date_obj[2])
        b == DayOfYear(holiday.month, holiday.day)
        d == IF a >= b THEN a - b ELSE b - a
    IN Min(d, 365 - d)

\* The holidays relevant to the route of the call.
RelevantHolidays ==
    { i \in DOMAIN CulturalHolidays :
        \/ "all" \in CulturalHolidays[i].regions
        \/ GetAirportRegion(signal_args.origin) \in CulturalHolidays[i].regions
        \/ GetAirportRegion(signal_args.destination) \in CulturalHolidays[i].regions }

HolidayWithin(days) ==
    \E i \in RelevantHolidays : CalendarDiff(signal_args.date_obj, CulturalHolidays[i]) <= days

\* The cultural-holiday drivers of the seasonality signal in the map.
HolidayDrivers ==
    { drv \in UNION { { e.value.drivers[j] : j \in DOMAIN e.value.drivers } :
                        e \in { signals.signals[n] : n \in { m \in DOMAIN signals.signals :
                                    signals.signals[m].key = "seasonality" } } } :
        drv.type = "cultural_holiday" }

\* C21: a cultural-holiday driver is reported exactly when the date lies
\* within 3 calendar days of a holiday relevant to the route, with strength
\* 0.8 within 1 calendar day and 0.5 otherwise, across month and year
\* boundaries too.
C21_HolidayWithinThreeDays ==
    (signals # NoValue /\ signal_args.date_obj # << >>) =>
        /\ (HolidayDrivers # {}) <=> HolidayWithin(3)
        /\ \A drv \in HolidayDrivers :
              drv.strength = IF HolidayWithin(1) THEN 80 ELSE 50

(***************************************************************************)
(* More properties of SegmentSignalAggregator.                             *)
(***************************************************************************)
\* The weights adjust_segment_mix normalises, for the map in one order.
FinalWeights(order) ==
    WeightsAfter(base_mix, EntriesIn(order), Len(EntriesIn(order)))

\* The distance of the mix's total from 1.0, in ten-thousandths.
OffOne(mix) ==
    IF MixTotal(mix) >= 10000 THEN MixTotal(mix) - 10000 ELSE 10000 - MixTotal(mix)

\* Every share of a returned mix is >= 0 and, where the adjusted total is
\* positive, the shares sum to 1.0 up to the rounding of the five shares.
AdjustedMixesValid ==
    \A order \in AdjustedOrders :
        /\ \A k \in Segments : adjusted_mix[order][k] >= 0
        /\ MixTotal(FinalWeights(order)) > 0 => OffOne(adjusted_mix[order]) <= 2

\* C23: for a base mix with non-negative shares and any signals map,
\* adjust_segment_mix returns a mix with every share >= 0 that sums to 1.0
\* (up to 4-decimal rounding) whenever the adjusted total is positive, and
\* the call leaves the caller's base_mix unchanged.
C23_AdjustedMixValid ==
    /\ []AdjustedMixesValid
    /\ [][AdjustedOrders' # AdjustedOrders => base_mix' = base_mix]_vars

\* adjust_segment_mix has run on a base mix with other = 0.05 and a cruise
\* signal strong enough to push other to the floor at 0.
C23_Witness ==
    /\ base_mix = MkMix(2000, 5500, 1000, 1000, 500)
    /\ "as_built" \in AdjustedOrders
    /\ \E n \in DOMAIN signals.signals :
          /\ signals.signals[n].key = "cruise"
          /\ signals.signals[n].value.signal_strength = 100
    /\ adjusted_mix["as_built"]["other"] = 0

(***************************************************************************)
(* More properties of FrequencyOptimizer.optimize.                         *)
(***************************************************************************)
\* C26: in every Optimal result the total daily frequency of each route,
\* summed over the aircraft types, is at most the route's max_frequency.
C26_TotalWithinMaxFrequency ==
    IsOptimal =>
        \A rk \in DOMAIN routes : DecidedTotal(rk) <= routes[rk].max_frequency

\* Every route has min_frequency = 0, daily_demand >= 0, max_frequency >= 0.
NoMinimum ==
    \A rk \in DOMAIN routes :
        /\ routes[rk].min_frequency = 0
        /\ routes[rk].daily_demand >= 0
        /\ routes[rk].max_frequency >= 0

C30_CurrentEntryIsBaseline ==
    analysis # NoValue =>
        /\ analysis.current.option = "Current"
        /\ analysis.current.delta_profit = 0
        /\ analysis.current.recommendation = "baseline"

(***************************************************************************)
(* Properties of TrendsSignalEngine.get_trends_signal.                     *)
(***************************************************************************)
ReturnedCalls == {t \in DOMAIN call : call[t].pc = "returned"}

KeyOf(c) == CacheKey(c.origin, c.destination)

\* C24: every value served from the cache was stored by a successful live
\* client call for the same origin_destination key less than 3600 seconds
\* earlier; synthetic fallback results are never stored; and a client
\* exception or an unsuccessful reply yields the synthetic signal.
C24_CacheServesFreshLiveValues ==
    /\ \A t \in ReturnedCalls :
          call[t].served = "cache" =>
              \E s \in live_stores :
                  /\ s.key = KeyOf(call[t])
                  /\ s.data = call[t].value
                  /\ s.timestamp <= call[t].at
                  /\ call[t].at - s.timestamp < 3600
    /\ \A k \in DOMAIN trends_cache :
          trends_cache[k] # NoValue =>
              /\ trends_cache[k].data.source = "google_trends"
              /\ [key |-> k, timestamp |-> trends_cache[k].timestamp,
                  data |-> trends_cache[k].data] \in live_stores
    /\ \A t \in ReturnedCalls :
          call[t].reply \in {"incomplete", "unsuccessful", "exception"} =>
              /\ call[t].served = "synthetic"
              /\ call[t].value = GetTrendsSignalSync(call[t].origin, call[t].destination)

\* One call was served from the cache 1800 seconds after the store while the
\* other, for the other key, got the synthetic signal after the client raised;
\* the cache holds an entry for the first key only.
C24_Witness ==
    /\ \E t \in ReturnedCalls :
          /\ call[t].served = "cache"
          /\ \A s \in live_stores :
                s.key = KeyOf(call[t]) => call[t].at - s.timestamp = 1800
          /\ \E u \in ReturnedCalls :
                /\ KeyOf(call[u]) # KeyOf(call[t])
                /\ call[u].reply = "exception"
                /\ trends_cache[KeyOf(call[u])] = NoValue

(***************************************************************************)
(* Properties of the Decision OS endpoints.                                *)
(***************************************************************************)
StatusOf(store, id) == store[id].status

\* C25: a decision's status changes to 'executing' only when its status
\* immediately before was 'approved', and a decision that was never approved
\* is never in status 'executing'.
C25_ExecutingOnlyAfterApproved ==
    /\ [][\A id \in DOMAIN decision_store :
             (StatusOf(decision_store', id) = "executing"
                 /\ StatusOf(decision_store, id) # "executing")
                => StatusOf(decision_store, id) = "approved"]_vars
    /\ [](\A id \in DOMAIN decision_store :
             StatusOf(decision_store, id) = "executing" => id \in approved_before)

\* C28: in every decision's audit_log each entry's from_status is the
\* to_status of the entry before it, that is the status the decision had
\* before the call, and the last entry's to_status is the decision's status.
C28_AuditLogChains ==
    \A id \in DOMAIN decision_store :
        LET log == decision_store[id].audit_log
        IN /\ \A i \in 2 .. Len(log) : log[i].from_status = log[i - 1].to_status
           /\ log[Len(log)].to_status = [s |-> decision_store[id].status]

====
